---- MODULE Spec2Model ----
(***************************************************************************)
(* Model of tr_functions/quarterly_overview.py: get_quarterly_data,        *)
(* add_share_prices, display_metrics and main; and of the watchlist of     *)
(* tr_functions/trading_rt.py: main, input_listener, validate_tickers.     *)
(*                                                                         *)
(* Encodings.                                                              *)
(*  - A Python dict is a function whose DOMAIN is its set of keys.         *)
(*  - A frame / quarter key ('CY2023Q1I') is the tuple of its characters,  *)
(*    so len(), rstrip('I'), startswith() and slicing are computed.       *)
(*  - An ISO date string 'YYYY-MM-DD' is the integer YYYYMMDD; the order   *)
(*    of the integers is the order of the strings and of the datetimes.    *)
(*    The default filed date '0' is the integer 0.                         *)
(*  - A NaN / None cell of a DataFrame row is a key missing from the row.  *)
(***************************************************************************)
EXTENDS Integers, Sequences, FiniteSets, TLC

VARIABLES
    data,                    \* facts['us-gaap'] of the response: the set of facts
    todo,                    \* the facts the loops at 125-144 have not reached yet
    shares_data,             \* facts['dei'] EntityCommonStockSharesOutstanding entries
    price_source,            \* the histories yfinance may return (364-365)
    stock_history,           \* the history returned: rows <<date, Close>> by date
    float_source,            \* the EntityPublicFloat lists the SEC may return (414)
    float_data,              \* the list returned: facts['dei'] EntityPublicFloat
    shares_outstanding_data, \* dict frame -> val (60-69)
    quarterly_data,          \* dict quarter -> dict (106)
    q_order,                 \* insertion order of quarterly_data's keys
    annual_data,             \* dict year -> dict (107)
    a_order,                 \* insertion order of annual_data's keys
    df,                      \* rows of the DataFrame: index -> row dict
    df_index,                \* the DataFrame's index, in row order
    pct_growth_dict,         \* display_metrics: index -> growth (311)
    formatted_df,            \* display_metrics: index -> colour of the Revenue cell
    pc,                      \* position in main / get_quarterly_data / add_share_prices
    stdin,                   \* trading_rt: the lines the user has yet to type
    valid_tickers,           \* trading_rt main: the watchlist (44)
    command_queue,           \* trading_rt main: queue.Queue of typed lines (51)
    rt_pc                    \* trading_rt main: position

vars == <<data, todo, shares_data, price_source, stock_history, float_source,
          float_data,
          shares_outstanding_data, quarterly_data, q_order, annual_data, a_order,
          df, df_index, pct_growth_dict, formatted_df, pc,
          stdin, valid_tickers, command_queue, rt_pc>>

\* The variables of trading_rt, which quarterly_overview never touches
watch == <<stdin, valid_tickers, command_queue, rt_pc>>

\* The variables of quarterly_overview, which trading_rt never touches
overview == <<data, todo, shares_data, price_source, stock_history, float_source,
              float_data, shares_outstanding_data, quarterly_data, q_order,
              annual_data, a_order, df, df_index, pct_growth_dict,
              formatted_df, pc>>

----------------------------------------------------------------------------
(* Dicts *)

EmptyDict == [x \in {} |-> 0]

Has(d, k) == k \in DOMAIN d

Get(d, k, default) == IF k \in DOMAIN d THEN d[k] ELSE default

Put(d, k, v) == [x \in (DOMAIN d) \cup {k} |-> IF x = k THEN v ELSE d[x]]

Drop(d, ks) == [x \in (DOMAIN d) \ ks |-> d[x]]

Range(s) == {s[i] : i \in DOMAIN s}

RECURSIVE SumOver(_, _)
SumOver(f, S) ==
    IF S = {} THEN 0
    ELSE LET x == CHOOSE y \in S : TRUE IN f[x] + SumOver(f, S \ {x})

----------------------------------------------------------------------------
(* Strings as character tuples *)

CharCode(c) ==
    CASE c = "0" -> 48 [] c = "1" -> 49 [] c = "2" -> 50 [] c = "3" -> 51
      [] c = "4" -> 52 [] c = "5" -> 53 [] c = "6" -> 54 [] c = "7" -> 55
      [] c = "8" -> 56 [] c = "9" -> 57 [] c = "C" -> 67 [] c = "F" -> 70
      [] c = "H" -> 72 [] c = "I" -> 73 [] c = "Q" -> 81 [] c = "X" -> 88
      [] c = "Y" -> 89

DigitVal(c) == CharCode(c) - 48

IsDigit(c) == c \in {"0", "1", "2", "3", "4", "5", "6", "7", "8", "9"}

\* Mutant of RStripI: the suffix is kept.
RStripINot(s) == s

RECURSIVE RStripI(_)
RStripI(s) ==
    IF Len(s) > 0 /\ s[Len(s)] = "I" THEN RStripI(SubSeq(s, 1, Len(s) - 1)) ELSE s

StartsWith(s, p) == Len(s) >= Len(p) /\ SubSeq(s, 1, Len(p)) = p

RECURSIVE StrLess(_, _)
StrLess(a, b) ==
    IF Len(b) = 0 THEN FALSE
    ELSE IF Len(a) = 0 THEN TRUE
    ELSE IF a[1] # b[1] THEN CharCode(a[1]) < CharCode(b[1])
    ELSE StrLess(Tail(a), Tail(b))

RECURSIVE SeqOfSet(_)
SeqOfSet(S) ==
    IF S = {} THEN <<>>
    ELSE LET x == CHOOSE y \in S : TRUE IN <<x>> \o SeqOfSet(S \ {x})

SortIndex(keys) == SortSeq(SeqOfSet(keys), StrLess)

Reverse(s) == [i \in 1..Len(s) |-> s[Len(s) + 1 - i]]

CY == <<"C", "Y">>
Frame(yyyy, q) == CY \o yyyy \o <<"Q", q>>
Instant(f) == f \o <<"I">>
Y2022 == <<"2", "0", "2", "2">>
Y2023 == <<"2", "0", "2", "3">>

----------------------------------------------------------------------------
(* The concept tables *)

metrics ==
    << <<"Revenue", "Revenues">>, <<"Revenue", "Revenue">>,
       <<"Revenue", "SalesRevenueNet">>,
       <<"Revenue", "RevenueFromContractWithCustomerExcludingAssessedTax">>,
       <<"Revenue", "RevenueFromContractWithCustomer">>,
       <<"Gross Profit", "GrossProfit">>, <<"Gross Profit", "GrossMargin">>,
       <<"Net Profit", "NetIncomeLoss">>, <<"Net Profit", "ProfitLoss">>,
       <<"Net Profit", "NetIncome">>,
       <<"Net Profit", "NetIncomeLossAvailableToCommonStockholdersBasic">>,
       <<"Total Debt", "Debt">>, <<"Total Debt", "DebtInstrumentCarryingAmount">>,
       <<"Total Debt", "LongTermDebtAndCapitalLeaseObligations">>,
       <<"Total Debt", "DebtAndCapitalLeaseObligations">>,
       <<"Total Debt", "DebtAndLeaseObligations">>,
       <<"Total Debt", "LongTermDebt">>, <<"Total Debt", "LongTermDebtNoncurrent">>,
       <<"Total Debt", "LongTermNotesPayable">>, <<"Total Debt", "LongTermBorrowings">>,
       <<"Total Debt", "LongTermLoansPayable">>,
       <<"Total Debt", "ShortTermDebt">>, <<"Total Debt", "ShortTermBorrowings">>,
       <<"Total Debt", "NotesPayableCurrent">>, <<"Total Debt", "LongTermDebtCurrent">>,
       <<"Total Debt", "CurrentPortionOfLongTermDebt">>, <<"Total Debt", "DebtCurrent">>,
       <<"Total Debt", "ShortTermNotesPayable">>,
       <<"Total Debt", "CurrentDebtAndCapitalLeaseObligation">>,
       <<"Total Debt", "LongTermDebtAndCapitalLeaseObligationsNoncurrent">>,
       <<"Cash", "CashAndCashEquivalentsAtCarryingValue">>, <<"Cash", "Cash">>,
       <<"Cash", "CashAndCashEquivalents">>, <<"Cash", "CashAndDueFromBanks">> >>

debt_components ==
    [short_term |-> {"ShortTermDebt", "ShortTermBorrowings", "NotesPayableCurrent",
                     "LongTermDebtCurrent", "CurrentPortionOfLongTermDebt",
                     "DebtCurrent", "ShortTermNotesPayable",
                     "CurrentDebtAndCapitalLeaseObligation"},
     long_term  |-> {"LongTermDebt", "LongTermDebtNoncurrent", "LongTermNotesPayable",
                     "LongTermBorrowings", "LongTermLoansPayable",
                     "LongTermDebtAndCapitalLeaseObligationsNoncurrent"}]

KnownConcepts == {metrics[i][2] : i \in DOMAIN metrics}

ConceptPos(c) == CHOOSE i \in DOMAIN metrics : metrics[i][2] = c

MetricOf(c) == metrics[ConceptPos(c)][1]

UnitTypes == <<"USD", "shares">>

UnitPos(u) == CHOOSE i \in DOMAIN UnitTypes : UnitTypes[i] = u

AdditiveMetrics == <<"Revenue", "Net Profit", "Gross Profit">>

FiledKey(m) ==
    CASE m = "Revenue" -> "Revenue_filed"
      [] m = "Gross Profit" -> "Gross Profit_filed"
      [] m = "Net Profit" -> "Net Profit_filed"
      [] m = "Total Debt" -> "Total Debt_filed"
      [] m = "Cash" -> "Cash_filed"
      [] m = "short_term_debt" -> "short_term_debt_filed"
      [] m = "long_term_debt" -> "long_term_debt_filed"

CalculatedKey(m) ==
    CASE m = "Revenue" -> "Revenue_calculated"
      [] m = "Gross Profit" -> "Gross Profit_calculated"
      [] m = "Net Profit" -> "Net Profit_calculated"

FiledKeys == {"Revenue_filed", "Gross Profit_filed", "Net Profit_filed",
              "Total Debt_filed", "Cash_filed", "short_term_debt_filed",
              "long_term_debt_filed"}

CalculatedKeys == {"Revenue_calculated", "Gross Profit_calculated",
                   "Net Profit_calculated"}

----------------------------------------------------------------------------
(* get_quarterly_data: shares outstanding of the dei namespace (59-69) *)

IsQuarterlyFrame(frame) == Len(frame) > 6 /\ StartsWith(frame, CY)

\* An insertion-ordered dict kept as a sequence of <<key, value>> pairs:
\* assigning an existing key keeps its place, a new key is appended.
PairsPut(ps, k, v) ==
    IF \E i \in DOMAIN ps : ps[i][1] = k
    THEN [i \in DOMAIN ps |-> IF ps[i][1] = k THEN <<k, v>> ELSE ps[i]]
    ELSE Append(ps, <<k, v>>)

RECURSIVE ExtractFrames(_, _)
ExtractFrames(entries, acc) ==
    IF entries = <<>> THEN acc
    ELSE LET entry == Head(entries)
             frame == RStripI(entry.frame)
         IN ExtractFrames(Tail(entries),
                IF Has(entry, "frame") /\ IsQuarterlyFrame(frame)
                THEN PairsPut(acc, frame, entry.val)
                ELSE acc)

ExtractShares ==
    /\ pc = "extract_shares"
    /\ shares_outstanding_data' = ExtractFrames(shares_data, <<>>)
    /\ pc' = "normalize"
    /\ UNCHANGED <<watch, price_source, float_source, data, todo, shares_data,
                   stock_history, float_data,
                   quarterly_data, q_order, annual_data, a_order,
                   df, df_index, pct_growth_dict, formatted_df>>

----------------------------------------------------------------------------
(* get_quarterly_data: the metric / concept / unit / value loops (124-181) *)

\* Reached by the loops: the concept is listed and the unit is USD or shares.
Visited(v) == v.concept \in KnownConcepts /\ v.unit \in Range(UnitTypes)

\* The loops reach the facts in the order of the concept lists, USD before shares;
\* the facts of one concept and unit come in the order of the response's list.
LoopPos(v) == 2 * ConceptPos(v.concept) + UnitPos(v.unit)

IsQuarterlyValue(v) ==
    /\ Has(v, "form") /\ v.form \in {"10-Q", "10-K"}
    /\ Has(v, "frame") /\ Has(v, "end")

FiledOf(v) == Get(v, "filed", 0)

IsAnnual(metric, quarter) == metric \in Range(AdditiveMetrics) /\ Len(quarter) = 6

\* Mutants of ShouldStore: the filed date is ignored.
ShouldStoreLastWins(d, metric, filed) == TRUE

ShouldStoreFirstWins(d, metric, filed) == ~Has(d, metric)

\* Mutant of ShouldStore: a fact filed on the same date replaces the value too.
ShouldStoreOnTie(d, metric, filed) ==
    ~Has(d, metric) \/ filed >= Get(d, FiledKey(metric), 0)

ShouldStore(d, metric, filed) ==
    ~Has(d, metric) \/ filed > Get(d, FiledKey(metric), 0)

ComponentType(concept) ==
    IF concept \in debt_components.short_term THEN "short_term_debt"
    ELSE IF concept \in debt_components.long_term THEN "long_term_debt"
    ELSE "None"

StoreAnnual(ad, year, metric, v) ==
    LET d0 == IF Has(ad, year) THEN ad[year] ELSE EmptyDict
        d1 == IF ShouldStore(d0, metric, FiledOf(v))
              THEN Put(Put(Put(d0, metric, v.val), FiledKey(metric), FiledOf(v)),
                       "end_date", v.end)
              ELSE d0
    IN Put(ad, year, d1)

\* Mutant of StoreQuarter: a component fact is stored as a component only,
\* not as Total Debt.
StoreQuarterComponentsApart(qd, base_quarter, metric, v) ==
    LET d0 == IF Has(qd, base_quarter) THEN qd[base_quarter]
              ELSE Put(EmptyDict, "end_date", v.end)
        component_type == ComponentType(v.concept)
        d1 == IF /\ metric = "Total Debt"
                 /\ component_type # "None"
                 /\ ShouldStore(d0, component_type, FiledOf(v))
              THEN Put(Put(d0, component_type, v.val),
                       FiledKey(component_type), FiledOf(v))
              ELSE d0
        d2 == IF /\ ~(metric = "Total Debt" /\ component_type # "None")
                 /\ ShouldStore(d1, metric, FiledOf(v))
              THEN Put(Put(d1, metric, v.val), FiledKey(metric), FiledOf(v))
              ELSE d1
    IN Put(qd, base_quarter, d2)

\* Mutant of StoreQuarter: a value of 0 is taken as no value and not stored.
StoreQuarterSkipZero(qd, base_quarter, metric, v) ==
    LET d0 == IF Has(qd, base_quarter) THEN qd[base_quarter]
              ELSE Put(EmptyDict, "end_date", v.end)
        component_type == ComponentType(v.concept)
        d1 == IF /\ metric = "Total Debt"
                 /\ component_type # "None"
                 /\ v.val # 0
                 /\ ShouldStore(d0, component_type, FiledOf(v))
              THEN Put(Put(d0, component_type, v.val),
                       FiledKey(component_type), FiledOf(v))
              ELSE d0
        d2 == IF v.val # 0 /\ ShouldStore(d1, metric, FiledOf(v))
              THEN Put(Put(d1, metric, v.val), FiledKey(metric), FiledOf(v))
              ELSE d1
    IN Put(qd, base_quarter, d2)

StoreQuarter(qd, base_quarter, metric, v) ==
    LET d0 == IF Has(qd, base_quarter) THEN qd[base_quarter]
              ELSE Put(EmptyDict, "end_date", v.end)
        component_type == ComponentType(v.concept)
        d1 == IF /\ metric = "Total Debt"
                 /\ component_type # "None"
                 /\ ShouldStore(d0, component_type, FiledOf(v))
              THEN Put(Put(d0, component_type, v.val),
                       FiledKey(component_type), FiledOf(v))
              ELSE d0
        d2 == IF ShouldStore(d1, metric, FiledOf(v))
              THEN Put(Put(d1, metric, v.val), FiledKey(metric), FiledOf(v))
              ELSE d1
    IN Put(qd, base_quarter, d2)

Appended(order, k) == IF k \in Range(order) THEN order ELSE Append(order, k)

ProcessFact ==
    /\ pc = "normalize"
    /\ \E v \in todo :
        /\ Visited(v)
        /\ \A w \in todo : Visited(w) => LoopPos(v) <= LoopPos(w)
        /\ todo' = todo \ {v}
        /\ LET metric == MetricOf(v.concept) IN
           IF ~IsQuarterlyValue(v)
           THEN UNCHANGED <<quarterly_data, q_order, annual_data, a_order>>
           ELSE IF IsAnnual(metric, v.frame)
           THEN /\ annual_data' = StoreAnnual(annual_data, v.frame, metric, v)
                /\ a_order' = Appended(a_order, v.frame)
                /\ UNCHANGED <<quarterly_data, q_order>>
           ELSE /\ quarterly_data' =
                       StoreQuarter(quarterly_data, RStripI(v.frame), metric, v)
                /\ q_order' = Appended(q_order, RStripI(v.frame))
                /\ UNCHANGED <<annual_data, a_order>>
    /\ UNCHANGED <<watch, price_source, float_source, data, shares_data,
                   stock_history, float_data,
                   shares_outstanding_data, df, df_index, pct_growth_dict,
                   formatted_df, pc>>

EndNormalize ==
    /\ pc = "normalize"
    /\ ~\E v \in todo : Visited(v)
    /\ pc' = "add_shares"
    /\ UNCHANGED <<watch, price_source, float_source, data, todo, shares_data,
                   stock_history, float_data,
                   shares_outstanding_data, quarterly_data, q_order, annual_data,
                   a_order, df, df_index, pct_growth_dict, formatted_df>>

----------------------------------------------------------------------------
(* get_quarterly_data: shares outstanding into the quarters (183-188) *)

RECURSIVE MergeShares(_, _, _)
MergeShares(items, qd, order) ==
    IF items = <<>> THEN <<qd, order>>
    ELSE LET quarter == Head(items)[1]
             shares == Head(items)[2]
         IN IF Has(qd, quarter)
            THEN MergeShares(Tail(items),
                     Put(qd, quarter, Put(qd[quarter], "Shares Outstanding", shares)),
                     order)
            ELSE MergeShares(Tail(items),
                     Put(qd, quarter, Put(EmptyDict, "Shares Outstanding", shares)),
                     Append(order, quarter))

AddShares ==
    /\ pc = "add_shares"
    /\ LET r == MergeShares(shares_outstanding_data, quarterly_data, q_order) IN
        /\ quarterly_data' = r[1]
        /\ q_order' = r[2]
    /\ pc' = "infer"
    /\ UNCHANGED <<watch, price_source, float_source, data, todo, shares_data,
                   stock_history, float_data,
                   shares_outstanding_data, annual_data, a_order,
                   df, df_index, pct_growth_dict, formatted_df>>

----------------------------------------------------------------------------
(* get_quarterly_data: missing quarters from annual data (190-221) *)

\* Mutant of CanInfer: two known quarters are taken as enough.
CanInferLoose(n) == n >= 2 /\ n <= 3

CanInfer(n) == n = 3

AllQuarters(year) ==
    << year \o <<"Q", "1">>, year \o <<"Q", "2">>,
       year \o <<"Q", "3">>, year \o <<"Q", "4">> >>

\* Mutant of MissingQuarter: the fourth quarter is always the one written.
MissingQuarterLast(year, quarters_with_metric) == AllQuarters(year)[4]

\* next(q for q in all_quarters if q not in quarters_with_metric)
MissingQuarter(year, quarters_with_metric) ==
    LET all_quarters == AllQuarters(year)
        i == CHOOSE j \in DOMAIN all_quarters :
                /\ all_quarters[j] \notin quarters_with_metric
                /\ \A k \in 1..(j - 1) : all_quarters[k] \in quarters_with_metric
    IN all_quarters[i]

\* Mutant of MissingValue: the operands of the subtraction are swapped.
MissingValueSwapped(annual_value, sum_of_known) == sum_of_known - annual_value

MissingValue(annual_value, sum_of_known) == annual_value - sum_of_known

\* Mutant of SetCalculated: the value is stored without its flag.
SetCalculatedNoFlag(d, metric, missing_value) == Put(d, metric, missing_value)

SetCalculated(d, metric, missing_value) ==
    Put(Put(d, metric, missing_value), CalculatedKey(metric), TRUE)

\* One pass of the loop over metrics for one year. year_keys are the keys of
\* year_quarters, taken before the loop; its values are the live dicts.
InferMetric(qd, order, year, year_keys, metric) ==
    LET year_data == annual_data[year]
        quarters_with_metric == {q \in year_keys : Has(qd[q], metric)}
    IN IF Has(year_data, metric) /\ CanInfer(Cardinality(quarters_with_metric))
       THEN LET missing_quarter == MissingQuarter(year, quarters_with_metric)
                sum_of_known ==
                    SumOver([q \in quarters_with_metric |-> qd[q][metric]],
                            quarters_with_metric)
                missing_value == MissingValue(year_data[metric], sum_of_known)
                d0 == IF Has(qd, missing_quarter) THEN qd[missing_quarter]
                      ELSE EmptyDict
                d1 == SetCalculated(d0, metric, missing_value)
            IN <<Put(qd, missing_quarter, d1), Appended(order, missing_quarter)>>
       ELSE <<qd, order>>

RECURSIVE InferMetrics(_, _, _, _, _)
InferMetrics(qd, order, year, year_keys, ms) ==
    IF ms = <<>> THEN <<qd, order>>
    ELSE LET r == InferMetric(qd, order, year, year_keys, Head(ms))
         IN InferMetrics(r[1], r[2], year, year_keys, Tail(ms))

RECURSIVE InferYears(_, _, _)
InferYears(qd, order, years) ==
    IF years = <<>> THEN <<qd, order>>
    ELSE LET year == Head(years)
             year_keys == {q \in DOMAIN qd : StartsWith(q, year)}
             r == InferMetrics(qd, order, year, year_keys, AdditiveMetrics)
         IN InferYears(r[1], r[2], Tail(years))

InferMissing ==
    /\ pc = "infer"
    /\ LET r == InferYears(quarterly_data, q_order, a_order) IN
        /\ quarterly_data' = r[1]
        /\ q_order' = r[2]
    /\ pc' = "debt"
    /\ UNCHANGED <<watch, price_source, float_source, data, todo, shares_data,
                   stock_history, float_data,
                   shares_outstanding_data, annual_data, a_order,
                   df, df_index, pct_growth_dict, formatted_df>>

----------------------------------------------------------------------------
(* get_quarterly_data: total debt from components (223-229) *)

DebtOf(d) ==
    LET short_term == Get(d, "short_term_debt", 0)
        long_term == Get(d, "long_term_debt", 0)
    IN IF ~Has(d, "Total Debt") /\ (short_term # 0 \/ long_term # 0)
       THEN Put(d, "Total Debt", short_term + long_term)
       ELSE d

AggregateDebt ==
    /\ pc = "debt"
    /\ quarterly_data' = [q \in DOMAIN quarterly_data |-> DebtOf(quarterly_data[q])]
    /\ pc' = "fill"
    /\ UNCHANGED <<watch, price_source, float_source, data, todo, shares_data,
                   stock_history, float_data,
                   shares_outstanding_data, q_order, annual_data, a_order,
                   df, df_index, pct_growth_dict, formatted_df>>

----------------------------------------------------------------------------
(* Series of a DataFrame column: a NaN is <<>>, a value v is <<v>> *)

Columns(rows) == UNION {DOMAIN rows[k] : k \in DOMAIN rows}

Series(rows, index, col) ==
    [i \in 1..Len(index) |->
        IF Has(rows[index[i]], col) THEN <<rows[index[i]][col]>> ELSE <<>>]

\* Mutant of ffill: a value is carried over one row only (limit=1).
ffillOneRow(s) ==
    [i \in DOMAIN s |->
        IF s[i] # <<>> THEN s[i]
        ELSE IF i > 1 /\ s[i - 1] # <<>> THEN s[i - 1]
        ELSE <<>>]

ffill(s) ==
    [i \in DOMAIN s |->
        IF \E j \in 1..i : s[j] # <<>>
        THEN s[CHOOSE j \in 1..i :
                  s[j] # <<>> /\ \A k \in (j + 1)..i : s[k] = <<>>]
        ELSE <<>>]

\* Mutant of bfill: the leading gaps are left as they are.
bfillNot(s) == s

bfill(s) ==
    [i \in DOMAIN s |->
        IF \E j \in i..Len(s) : s[j] # <<>>
        THEN s[CHOOSE j \in i..Len(s) :
                  s[j] # <<>> /\ \A k \in i..(j - 1) : s[k] = <<>>]
        ELSE <<>>]

\* Mutant of FillBoth: the backward pass runs first.
FillBothBackwardFirst(s) == ffill(bfill(s))

FillBoth(s) == bfill(ffill(s))

\* rows with column col replaced by the series s, which is aligned with index
SetColumn(rows, index, col, s) ==
    [k \in DOMAIN rows |->
        LET i == CHOOSE j \in DOMAIN index : index[j] = k
        IN IF s[i] = <<>> THEN Drop(rows[k], {col})
           ELSE Put(rows[k], col, s[i][1])]

\* sort_index, ffill and bfill of 'Shares Outstanding', when the column exists
FillFrame(rows) ==
    IF "Shares Outstanding" \in Columns(rows)
    THEN LET index == SortIndex(DOMAIN rows)
             filled == FillBoth(Series(rows, index, "Shares Outstanding"))
         IN SetColumn(rows, index, "Shares Outstanding", filled)
    ELSE rows

(* get_quarterly_data: fill of shares outstanding (231-247) *)

FillSharesOutstanding ==
    /\ pc = "fill"
    /\ quarterly_data' = FillFrame(quarterly_data)
    /\ q_order' = IF "Shares Outstanding" \in Columns(quarterly_data)
                  THEN SortIndex(DOMAIN quarterly_data)
                  ELSE q_order
    /\ pc' = "strip"
    /\ UNCHANGED <<watch, price_source, float_source, data, todo, shares_data,
                   stock_history, float_data,
                   shares_outstanding_data, annual_data, a_order,
                   df, df_index, pct_growth_dict, formatted_df>>

----------------------------------------------------------------------------
(* get_quarterly_data: temporary columns and annual rows removed (249-256) *)

TemporaryKeys ==
    FiledKeys \cup CalculatedKeys \cup {"short_term_debt", "long_term_debt"}

\* Mutant of IsQuarterRow: the rows keyed by a year are kept.
IsQuarterRowAny(k) == TRUE

IsQuarterRow(k) == Len(k) > 6

StripColumns ==
    /\ pc = "strip"
    /\ quarterly_data' =
          [q \in {k \in DOMAIN quarterly_data : IsQuarterRow(k)} |->
              Drop(quarterly_data[q], TemporaryKeys)]
    /\ q_order' = SelectSeq(q_order, IsQuarterRow)
    /\ pc' = "output"
    /\ UNCHANGED <<watch, price_source, float_source, data, todo, shares_data,
                   stock_history, float_data,
                   shares_outstanding_data, annual_data, a_order,
                   df, df_index, pct_growth_dict, formatted_df>>

----------------------------------------------------------------------------
(* get_quarterly_data: the returned DataFrame (258-272) *)

HeadLimit == 20

Head20(s) == IF Len(s) <= HeadLimit THEN s ELSE SubSeq(s, 1, HeadLimit)

Orderings(S) ==
    {p \in [1..Cardinality(S) -> S] : \A i, j \in DOMAIN p : i # j => p[i] # p[j]}

\* The row orders DataFrame.from_dict may give the rows without an end_date.
\* After the fill (247) the rows are in index order. Without it,
\* from_dict takes the rows column by column, so these rows follow the dated
\* ones in an order that depends on the key order of the records, which is
\* not modelled: any order.
UndatedOrders(rows, order) ==
    LET NoEnd(k) == ~Has(rows[k], "end_date")
    IN IF "Shares Outstanding" \in Columns(rows)
       THEN {SelectSeq(order, NoEnd)}
       ELSE Orderings({k \in DOMAIN rows : NoEnd(k)})

\* df.sort_values('end_date', ascending=False): rows without an end_date (NaT)
\* come last, in the order they had in the frame.
SortByEndDateDesc(rows, order, undated) ==
    LET HasEnd(k) == Has(rows[k], "end_date")
        Later(a, b) == rows[a]["end_date"] > rows[b]["end_date"]
    IN SortSeq(SelectSeq(order, HasEnd), Later) \o undated

SortedOutput(rows, order, undated) ==
    IF "end_date" \in Columns(rows)
    THEN SortByEndDateDesc(rows, order, undated)
    ELSE Reverse(SortIndex(DOMAIN rows))

IsEmptyFrame(rows) == DOMAIN rows = {} \/ Columns(rows) = {}

BuildOutput ==
    /\ pc = "output"
    /\ IF IsEmptyFrame(quarterly_data)
       THEN /\ df' = quarterly_data
            /\ df_index' = q_order
       ELSE \E undated \in UndatedOrders(quarterly_data, q_order) :
            LET index == Head20(SortedOutput(quarterly_data, q_order, undated)) IN
            /\ df_index' = index
            /\ df' = [k \in Range(index) |-> Drop(quarterly_data[k], {"end_date"})]
    /\ pc' = "main"
    /\ UNCHANGED <<watch, price_source, float_source, data, todo, shares_data,
                   stock_history, float_data,
                   shares_outstanding_data, quarterly_data, q_order, annual_data,
                   a_order, pct_growth_dict, formatted_df>>

----------------------------------------------------------------------------
(* main (502-508) *)

MainDispatch ==
    /\ pc = "main"
    /\ pc' = IF ~IsEmptyFrame(df) THEN "prices" ELSE "done"
    /\ UNCHANGED <<watch, price_source, float_source, data, todo, shares_data,
                   stock_history, float_data,
                   shares_outstanding_data, quarterly_data, q_order, annual_data,
                   a_order, df, df_index, pct_growth_dict, formatted_df>>

----------------------------------------------------------------------------
(* add_share_prices: the price of each quarter's end date (368-404) *)

\* int(idx[2:6])
YearOf(idx) ==
    1000 * DigitVal(idx[3]) + 100 * DigitVal(idx[4])
        + 10 * DigitVal(idx[5]) + DigitVal(idx[6])

\* int(idx[7])
QuarterOf(idx) == DigitVal(idx[8])

\* f"{year}-{end_month:02d}-{end_day:02d}"
EndDateStr(idx) ==
    LET quarter == QuarterOf(idx)
        md == IF quarter = 1 THEN 331
              ELSE IF quarter = 2 THEN 630
              ELSE IF quarter = 3 THEN 930
              ELSE 1231
    IN YearOf(idx) * 10000 + md

\* Mutant of NearestDates: the dates on or after the end date are taken.
NearestDatesAhead(history, end_date_str) ==
    LET OnOrAfter(row) == row[1] >= end_date_str
    IN SelectSeq(history, OnOrAfter)

\* stock_history.index[stock_history.index <= end_date_str]
NearestDates(history, end_date_str) ==
    LET OnOrBefore(row) == row[1] <= end_date_str
    IN SelectSeq(history, OnOrBefore)

\* Mutant of PriceAt: without a date on or before the end date the price is 0.
PriceAtDefaultZero(history, end_date_str) ==
    IF \E i \in DOMAIN history : history[i][1] = end_date_str
    THEN {history[i][2] : i \in {j \in DOMAIN history : history[j][1] = end_date_str}}
    ELSE LET nearest_dates == NearestDates(history, end_date_str)
         IN IF nearest_dates # <<>>
            THEN {nearest_dates[Len(nearest_dates)][2]}
            ELSE {0}

\* The Close to assign, as a set: empty when the cell is left None.
PriceAt(history, end_date_str) ==
    IF \E i \in DOMAIN history : history[i][1] = end_date_str
    THEN {history[i][2] : i \in {j \in DOMAIN history : history[j][1] = end_date_str}}
    ELSE LET nearest_dates == NearestDates(history, end_date_str)
         IN IF nearest_dates # <<>>
            THEN {nearest_dates[Len(nearest_dates)][2]}
            ELSE {}

SharePriceRow(row, idx, history) ==
    IF ~StartsWith(idx, CY) THEN Drop(row, {"Share Price"})
    ELSE LET price == PriceAt(history, EndDateStr(idx))
         IN IF price = {} THEN Drop(row, {"Share Price"})
            ELSE Put(row, "Share Price", CHOOSE c \in price : TRUE)

\* int(idx[2:6]) and int(idx[7]) return: the index has an eighth character
\* and the characters read are digits. Otherwise they raise, outside the
\* try of 393: the except of 490 returns the frame as it is.
IndexParses(idx) == Len(idx) >= 8 /\ \A i \in {3, 4, 5, 6, 8} : IsDigit(idx[i])

\* The position in the frame of the first row at which the loop raises, or
\* one past the last row
RaisesAt(index) ==
    LET bad == {i \in DOMAIN index :
                   StartsWith(index[i], CY) /\ ~IndexParses(index[i])}
    IN IF bad = {} THEN Len(index) + 1
       ELSE CHOOSE i \in bad : \A j \in bad : i <= j

AlignPrices ==
    /\ pc = "prices"
    /\ \E history \in price_source :
        /\ stock_history' = history
        /\ df' = [idx \in DOMAIN df |->
                     LET i == CHOOSE j \in DOMAIN df_index : df_index[j] = idx
                     IN IF i < RaisesAt(df_index)
                        THEN SharePriceRow(df[idx], idx, history)
                        ELSE Drop(df[idx], {"Share Price"})]
    /\ pc' = IF RaisesAt(df_index) > Len(df_index) THEN "float" ELSE "growth"
    /\ UNCHANGED <<watch, price_source, float_source, data, todo, shares_data,
                   float_data,
                   shares_outstanding_data, quarterly_data, q_order, annual_data,
                   a_order, df_index, pct_growth_dict, formatted_df>>

----------------------------------------------------------------------------
(* add_share_prices: shares outstanding from public float (406-449) *)

RECURSIVE ExtractFloat(_, _)
ExtractFloat(entries, acc) ==
    IF entries = <<>> THEN acc
    ELSE LET entry == Head(entries)
             frame == RStripI(entry.frame)
         IN ExtractFloat(Tail(entries),
                IF Has(entry, "frame") /\ Has(entry, "val") /\ IsQuarterlyFrame(frame)
                THEN Put(acc, frame, entry.val)
                ELSE acc)

\* Mutant of PriceIsPositive: only a price of zero is refused.
PriceIsNotZero(share_price) == share_price # 0

PriceIsPositive(share_price) == share_price > 0

\* public_float / share_price; the inputs of the model divide exactly
SharesFromFloat(public_float, share_price) == public_float \div share_price

\* Mutant of DeriveRow: a row without a public float takes the float of
\* another quarter.
DeriveRowAnyFloat(row, idx, public_float_data) ==
    IF /\ Has(row, "Share Price")
       /\ ~Has(row, "Shares Outstanding")
       /\ PriceIsPositive(row["Share Price"])
    THEN Put(row, "Shares Outstanding",
             SharesFromFloat(
                 IF Has(public_float_data, idx) THEN public_float_data[idx]
                 ELSE public_float_data[CHOOSE k \in DOMAIN public_float_data : TRUE],
                 row["Share Price"]))
    ELSE row

DeriveRow(row, idx, public_float_data) ==
    IF /\ Has(public_float_data, idx)
       /\ Has(row, "Share Price")
       /\ ~Has(row, "Shares Outstanding")
       /\ PriceIsPositive(row["Share Price"])
    THEN Put(row, "Shares Outstanding",
             SharesFromFloat(public_float_data[idx], row["Share Price"]))
    ELSE row

NeedsShares(rows) ==
    \/ "Shares Outstanding" \notin Columns(rows)
    \/ \E k \in DOMAIN rows : ~Has(rows[k], "Shares Outstanding")

DeriveShares ==
    /\ pc = "float"
    /\ \E float_list \in float_source :
        /\ float_data' = float_list
        /\ LET public_float_data == ExtractFloat(float_list, EmptyDict) IN
           IF DOMAIN public_float_data # {} /\ NeedsShares(df)
           THEN df' = [idx \in DOMAIN df |->
                          DeriveRow(df[idx], idx, public_float_data)]
           ELSE UNCHANGED df
    /\ pc' = "fill2"
    /\ UNCHANGED <<watch, price_source, float_source, data, todo, shares_data,
                   stock_history,
                   shares_outstanding_data, quarterly_data, q_order, annual_data,
                   a_order, df_index, pct_growth_dict, formatted_df>>

----------------------------------------------------------------------------
(* add_share_prices: second fill of shares outstanding (454-471) *)

\* Mutant of FillAgain: the fill is not run a second time.
FillAgainSkipped ==
    /\ pc = "fill2"
    /\ pc' = "mcap"
    /\ UNCHANGED <<watch, price_source, float_source, data, todo, shares_data,
                   stock_history, float_data,
                   shares_outstanding_data, quarterly_data, q_order, annual_data,
                   a_order, df, df_index, pct_growth_dict, formatted_df>>

FillAgain ==
    /\ pc = "fill2"
    /\ df' = FillFrame(df)
    /\ pc' = "mcap"
    /\ UNCHANGED <<watch, price_source, float_source, data, todo, shares_data,
                   stock_history, float_data,
                   shares_outstanding_data, quarterly_data, q_order, annual_data,
                   a_order, df_index, pct_growth_dict, formatted_df>>

----------------------------------------------------------------------------
(* add_share_prices: market cap (473-480) *)

\* Mutant of MarketCapRow: an absent operand is taken as 0.
MarketCapRowZero(row) ==
    Put(row, "Market Cap",
        Get(row, "Share Price", 0) * Get(row, "Shares Outstanding", 0))

MarketCapRow(row) ==
    IF Has(row, "Share Price") /\ Has(row, "Shares Outstanding")
    THEN Put(row, "Market Cap", row["Share Price"] * row["Shares Outstanding"])
    ELSE Drop(row, {"Market Cap"})

MarketCap ==
    /\ pc = "mcap"
    /\ df' = [idx \in DOMAIN df |-> MarketCapRow(df[idx])]
    /\ pc' = "growth"
    /\ UNCHANGED <<watch, price_source, float_source, data, todo, shares_data,
                   stock_history, float_data,
                   shares_outstanding_data, quarterly_data, q_order, annual_data,
                   a_order, df_index, pct_growth_dict, formatted_df>>

----------------------------------------------------------------------------
(* display_metrics: revenue growth (306-339) *)

\* A growth value is the fraction <<n, d>> with d > 0, equal to n / d;
\* None is <<>>. Rounding of the floating-point division is not modelled.
Fraction(n, d) == <<n, d>>

Abs(x) == IF x < 0 THEN -x ELSE x

\* Mutant of GrowthOf: two non-positive values are compared by division
\* without the test previous < current.
GrowthOfUnguarded(current, previous) ==
    IF current = <<>> \/ previous = <<>> THEN {}
    ELSE LET c == current[1]
             p == previous[1]
         IN IF p <= 0 /\ c > 0 THEN {Fraction(100, 1)}
            ELSE IF p <= 0 /\ c <= 0
                 THEN {Fraction((p - c) * (-100), Abs(p))}
            ELSE {Fraction((c - p) * 100, p)}

\* Mutant of GrowthOf: the percent change is taken whatever the signs are.
GrowthOfNaive(current, previous) ==
    IF current = <<>> \/ previous = <<>> THEN {}
    ELSE {Fraction((current[1] - previous[1]) * 100, Abs(previous[1]))}

\* The body of the loop at 314-335 for one pair of rows, as a set: the value
\* stored for the current row, or empty when no branch applies (a NaN operand).
GrowthOf(current, previous) ==
    IF current = <<>> \/ previous = <<>> THEN {}
    ELSE LET c == current[1]
             p == previous[1]
         IN IF p <= 0 /\ c > 0 THEN {Fraction(100, 1)}
            ELSE IF p <= 0 /\ c <= 0
                 THEN IF p < c THEN {Fraction((p - c) * (-100), Abs(p))}
                      ELSE {Fraction(0, 1)}
            ELSE IF p > 0 THEN {Fraction((c - p) * 100, p)}
            ELSE {}

GrowthDict(revenue_series, index) ==
    LET n == Len(index)
        with == {i \in 1..(n - 1) :
                    GrowthOf(revenue_series[i], revenue_series[i + 1]) # {}}
        keys == {index[i] : i \in with} \cup (IF n > 0 THEN {index[n]} ELSE {})
    IN [k \in keys |->
           LET i == CHOOSE j \in 1..n : index[j] = k
           IN IF i = n THEN <<>>
              ELSE CHOOSE g \in GrowthOf(revenue_series[i], revenue_series[i + 1]) : TRUE]

ComputeGrowth ==
    /\ pc = "growth"
    /\ pct_growth_dict' =
          IF "Revenue" \in Columns(df)
          THEN GrowthDict(Series(df, df_index, "Revenue"), df_index)
          ELSE EmptyDict
    /\ pc' = "tier"
    /\ UNCHANGED <<watch, price_source, float_source, data, todo, shares_data,
                   stock_history, float_data,
                   shares_outstanding_data, quarterly_data, q_order, annual_data,
                   a_order, df, df_index, formatted_df>>

----------------------------------------------------------------------------
(* display_metrics: the colour of the Revenue cell (341-352) *)

\* g >= n for a growth value that is not None
AtLeast(g, n) == g[1] >= n * g[2]

\* Mutant of Colour: the thresholds are compared strictly.
ColourStrict(g) ==
    IF g # <<>> /\ g[1] > 15 * g[2] THEN "dark green"
    ELSE IF g # <<>> /\ g[1] > 10 * g[2] THEN "medium green"
    ELSE IF g # <<>> /\ g[1] > 5 * g[2] THEN "light green"
    ELSE "plain"

Colour(g) ==
    IF g # <<>> /\ AtLeast(g, 15) THEN "dark green"
    ELSE IF g # <<>> /\ AtLeast(g, 10) THEN "medium green"
    ELSE IF g # <<>> /\ AtLeast(g, 5) THEN "light green"
    ELSE "plain"

\* Mutant of ApplyColours: the coloured cells are written into the table
\* itself, not into its copy, as the figure scaled to thousands.
ApplyColoursInPlace ==
    /\ pc = "tier"
    /\ formatted_df' = [idx \in DOMAIN df |-> "plain"]
    /\ df' = [idx \in DOMAIN df |->
                 IF /\ Has(df[idx], "Revenue") /\ Has(pct_growth_dict, idx)
                    /\ Colour(pct_growth_dict[idx]) # "plain"
                 THEN Put(df[idx], "Revenue", df[idx]["Revenue"] \div 1000)
                 ELSE df[idx]]
    /\ pc' = "done"
    /\ UNCHANGED <<watch, price_source, float_source, data, todo, shares_data,
                   stock_history, float_data,
                   shares_outstanding_data, quarterly_data, q_order, annual_data,
                   a_order, df_index, pct_growth_dict>>

ApplyColours ==
    /\ pc = "tier"
    /\ formatted_df' =
          [idx \in DOMAIN df |->
              IF "Revenue" \in Columns(df) /\ Has(pct_growth_dict, idx)
              THEN Colour(pct_growth_dict[idx])
              ELSE "plain"]
    /\ pc' = "done"
    /\ UNCHANGED <<watch, price_source, float_source, data, todo, shares_data,
                   stock_history, float_data,
                   shares_outstanding_data, quarterly_data, q_order, annual_data,
                   a_order, df, df_index, pct_growth_dict>>

----------------------------------------------------------------------------
(* The run *)

Next ==
    \/ ExtractShares
    \/ ProcessFact
    \/ EndNormalize
    \/ AddShares
    \/ InferMissing
    \/ AggregateDebt
    \/ FillSharesOutstanding
    \/ StripColumns
    \/ BuildOutput
    \/ MainDispatch
    \/ AlignPrices
    \/ DeriveShares
    \/ FillAgain
    \/ MarketCap
    \/ ComputeGrowth
    \/ ApplyColours

----------------------------------------------------------------------------
(* Inputs *)

MaxFacts == 5

Fact(concept, frame, end, val, filed) ==
    [concept |-> concept, unit |-> "USD", form |-> "10-Q",
     frame |-> frame, end |-> end, val |-> val, filed |-> filed]

Entry(frame, val) == [frame |-> frame, val |-> val]

Q1 == Frame(Y2023, "1")
Q2 == Frame(Y2023, "2")
Q3 == Frame(Y2023, "3")
Q4 == Frame(Y2023, "4")
PrevQ4 == Frame(Y2022, "4")
FY == CY \o Y2023

\* Revenue and net profit of 2023 under two revenue concepts, with
\* restatements of Q1 and of the annual total, and one older quarter.
RevenueFacts ==
    { Fact("Revenues", Q1, 20230331, 10, 20230401),
      Fact("Revenues", Q1, 20230331, 12, 20230501),
      Fact("SalesRevenueNet", Q1, 20230331, 11, 20230401),
      Fact("SalesRevenueNet", Q1, 20230331, 13, 20230501),
      Fact("Revenues", Q2, 20230630, 15, 20230701),
      Fact("Revenues", Q3, 20230930, 18, 20231001),
      Fact("Revenues", Q4, 20231231, 20, 20240201),
      Fact("Revenues", FY, 20231231, 75, 20231201),
      Fact("Revenues", FY, 20231231, 80, 20240201),
      Fact("Revenues", PrevQ4, 20221231, 9, 20230201),
      Fact("NetIncomeLoss", Q1, 20230331, 1, 20230401),
      Fact("NetIncomeLoss", Q2, 20230630, 2, 20230701),
      Fact("NetIncomeLoss", Q4, 20231231, -3, 20240201),
      Fact("NetIncomeLoss", FY, 20231231, 4, 20240201) }

SharesChoices == { <<>>, <<Entry(Instant(Q4), 100)>> }

\* Trading days around the quarter ends; 2023-06-30 and 2023-09-29 are
\* trading days, 2023-09-30 and 2023-12-31 are not.
History ==
    << <<20230330, 40>>, <<20230331, 41>>, <<20230403, 42>>, <<20230630, 50>>,
       <<20230703, 51>>, <<20230929, 60>>, <<20231002, 61>>, <<20231229, 70>>,
       <<20240102, 71>> >>

\* The responses with at most MaxFacts facts of a domain
UpTo(FactDomain) == {S \in SUBSET FactDomain : Cardinality(S) <= MaxFacts}

\* trading_rt is not running
WatchIdle ==
    /\ stdin = <<>>
    /\ valid_tickers = <<>>
    /\ command_queue = <<>>
    /\ rt_pc = "exited"

InitWith(Responses, SharesSet, HistorySet, FloatSet) ==
    /\ data \in Responses
    /\ todo = data
    /\ shares_data \in SharesSet
    /\ price_source = HistorySet
    /\ stock_history = <<>>
    /\ float_source = FloatSet
    /\ float_data = <<>>
    /\ shares_outstanding_data = <<>>
    /\ quarterly_data = EmptyDict
    /\ q_order = <<>>
    /\ annual_data = EmptyDict
    /\ a_order = <<>>
    /\ df = EmptyDict
    /\ df_index = <<>>
    /\ pct_growth_dict = EmptyDict
    /\ formatted_df = EmptyDict
    /\ pc = "extract_shares"
    /\ WatchIdle

Init == InitWith(UpTo(RevenueFacts), SharesChoices, {History}, {<<>>})

Spec == Init /\ [][Next]_vars

\* Balance-sheet facts (instant frames) of two quarters: direct total debt,
\* long-term and short-term components with restatements, zero debt, cash,
\* and one duration fact of the first quarter.
DebtFacts ==
    { Fact("Debt", Instant(Q1), 20230331, 20, 20230401),
      Fact("LongTermDebt", Instant(Q1), 20230331, 7, 20230401),
      Fact("LongTermDebtNoncurrent", Instant(Q1), 20230331, 8, 20230501),
      Fact("ShortTermDebt", Instant(Q1), 20230331, 5, 20230401),
      Fact("ShortTermBorrowings", Instant(Q1), 20230331, 6, 20230501),
      Fact("LongTermDebt", Instant(Q2), 20230630, 0, 20230701),
      Fact("ShortTermDebt", Instant(Q2), 20230630, 0, 20230701),
      Fact("ShortTermDebt", Instant(Q2), 20230630, 3, 20230801),
      Fact("Cash", Instant(Q1), 20230331, 30, 20230401),
      Fact("Revenues", Q1, 20230331, 10, 20230401) }

RECURSIVE SubSeqs(_)
SubSeqs(s) ==
    IF s = <<>> THEN {<<>>}
    ELSE LET rest == SubSeqs(Tail(s))
         IN rest \cup {<<Head(s)>> \o r : r \in rest}

\* One revenue fact for each of four quarters; shares outstanding reported
\* for some quarters only; trading days on and around the quarter ends
\* (2023-03-31 is one, 2023-06-30 and 2023-09-30 are not in the series);
\* public float of two quarters.
MarketFacts ==
    { Fact("Revenues", PrevQ4, 20221231, 9, 20230201),
      Fact("Revenues", Q1, 20230331, 10, 20230401),
      Fact("Revenues", Q2, 20230630, 15, 20230701),
      Fact("Revenues", Q3, 20230930, 18, 20231001) }

MarketShares ==
    SubSeqs(<<Entry(Instant(PrevQ4), 50), Entry(Instant(Q1), 100),
              Entry(Instant(Q3), 300)>>)

MarketHistories ==
    SubSeqs(<< <<20221230, 10>>, <<20230331, 20>>, <<20230403, 15>>,
               <<20230929, 30>>, <<20231002, 31>> >>)

MarketFloats == SubSeqs(<<Entry(Instant(Q1), 600), Entry(Instant(Q3), 1200)>>)

InitMarket == InitWith(UpTo(MarketFacts), MarketShares, MarketHistories, MarketFloats)

SpecMarket == InitMarket /\ [][Next]_vars

InitDebt ==
    InitWith(UpTo(DebtFacts), {<<>>, <<Entry(Instant(Q1), 100)>>}, {History}, {<<>>})

SpecDebt == InitDebt /\ [][Next]_vars

\* The end-to-end scenario: revenue of the first quarter filed twice, of the
\* second and third quarters, and the annual total, each under one of two
\* revenue concepts.
ScenarioConcepts == {"Revenues", "SalesRevenueNet"}

ScenarioFacts(c) ==
    { Fact(c[1], Q1, 20230331, 10, 20230401),
      Fact(c[2], Q1, 20230331, 12, 20230501),
      Fact(c[3], Q2, 20230630, 15, 20230701),
      Fact(c[4], Q3, 20230930, 18, 20231001),
      Fact(c[5], FY, 20231231, 75, 20231201) }

InitScenario ==
    InitWith({ScenarioFacts(c) : c \in [1..5 -> ScenarioConcepts]},
             SharesChoices, {History}, {<<>>})

SpecScenario == InitScenario /\ [][Next]_vars

\* Revenue of three consecutive quarters, each one of a few values or not
\* reported (the quarter then has a cash fact only).
GrowthValues == {-20, -10, 0, 5, 10000, 10499, 10500, 11000, 11499, 11500, 12075}

GrowthCells == {<<>>} \cup {<<v>> : v \in GrowthValues}

GrowthFact(q, end, cell) ==
    IF cell = <<>> THEN Fact("Cash", Instant(q), end, 1, end + 1)
    ELSE Fact("Revenues", q, end, cell[1], end + 1)

GrowthFacts(r) ==
    { GrowthFact(Q1, 20230331, r[1]), GrowthFact(Q2, 20230630, r[2]),
      GrowthFact(Q3, 20230930, r[3]) }

InitGrowth ==
    InitWith({GrowthFacts(r) : r \in [1..3 -> GrowthCells]},
             {<<>>}, {History}, {<<>>})

SpecGrowth == InitGrowth /\ [][Next]_vars

\* Revenue of up to four quarters; shares outstanding reported or not; a
\* price series with a close of zero and a negative close; public float of
\* three quarters.
FloatShares == { <<>>, <<Entry(Instant(Q1), 100)>> }

FloatHistories ==
    SubSeqs(<< <<20230331, 20>>, <<20230630, 0>>, <<20230929, -5>> >>)

FloatFloats ==
    SubSeqs(<<Entry(Instant(Q1), 600), Entry(Instant(Q2), 700),
              Entry(Instant(Q3), 1200)>>)

InitFloat == InitWith(UpTo(MarketFacts), FloatShares, FloatHistories, FloatFloats)

SpecFloat == InitFloat /\ [][Next]_vars

\* Responses that may hold nothing: no fact or revenue of up to two quarters,
\* shares outstanding reported or not, a price series that is empty or holds
\* one day, a public float list that is empty or holds one entry.
SparseFacts ==
    { Fact("Revenues", Q1, 20230331, 10, 20230401),
      Fact("Revenues", Q2, 20230630, 15, 20230701) }

InitSparse ==
    InitWith(UpTo(SparseFacts), FloatShares, {<<>>, << <<20230331, 20>> >>},
             {<<>>, <<Entry(Instant(Q1), 600)>>})

\* main runs its steps one after the other to the end: a step that can be
\* taken is taken.
SpecSparse == InitSparse /\ [][Next]_vars /\ WF_vars(Next)

\* Revenue of two quarters, and facts that are not recognised: one of a
\* concept that is not listed, a cash fact framed by a year, a cash fact and
\* a revenue fact whose frames are not quarter keys.
Malformed == CY \o Y2023 \o <<"Q", "X">>

HalfYear == CY \o Y2023 \o <<"H", "1">>

UnrecognizedFacts ==
    { Fact("Revenues", Q1, 20230331, 10, 20230401),
      Fact("Revenues", Q2, 20230630, 15, 20230701),
      Fact("Goodwill", Q1, 20230331, 99, 20230401),
      Fact("Cash", FY, 20231231, 8, 20240201),
      Fact("Cash", Malformed, 20230930, 7, 20231001),
      Fact("Revenues", HalfYear, 20230630, 25, 20230701) }

InitUnrecognized ==
    InitWith(UpTo(UnrecognizedFacts), FloatShares, {History}, {<<>>})

SpecUnrecognized == InitUnrecognized /\ [][Next]_vars

\* Revenue of one quarter reported several times: twice under the first
\* concept on the same filing date, under a later concept on that date, and
\* under both concepts in an earlier filing; revenue of a second quarter.
TieFacts ==
    { Fact("Revenues", Q1, 20230331, 10, 20230401),
      Fact("Revenues", Q1, 20230331, 11, 20230401),
      Fact("SalesRevenueNet", Q1, 20230331, 12, 20230401),
      Fact("SalesRevenueNet", Q1, 20230331, 13, 20230301),
      Fact("Revenues", Q1, 20230331, 9, 20230301),
      Fact("Revenues", Q2, 20230630, 15, 20230701) }

InitTie == InitWith(UpTo(TieFacts), FloatShares, {History}, {<<>>})

SpecTie == InitTie /\ [][Next]_vars

\* Revenue of the first two quarters, and any of: revenue of the third and
\* of the fourth quarter, the annual revenue filed twice (the later filing
\* under another concept), and a cash fact framed by the year.
AnnualCore ==
    { Fact("Revenues", Q1, 20230331, 10, 20230401),
      Fact("Revenues", Q2, 20230630, 15, 20230701) }

AnnualExtras ==
    { Fact("Revenues", Q3, 20230930, 18, 20231001),
      Fact("Revenues", Q4, 20231231, 20, 20240201),
      Fact("Revenues", FY, 20231231, 75, 20231201),
      Fact("SalesRevenueNet", FY, 20231231, 80, 20240201),
      Fact("Cash", FY, 20231231, 8, 20240201) }

InitAnnual ==
    InitWith({AnnualCore \cup S : S \in SUBSET AnnualExtras},
             FloatShares, {History}, {<<>>})

SpecAnnual == InitAnnual /\ [][Next]_vars

----------------------------------------------------------------------------
(* trading_rt: the watchlist *)

\* A typed line is the sequence of its words (str.split); a ticker is a
\* word.  str.upper and str.lower over the words of the lines below:
upper(word) ==
    CASE word = "aapl" -> "AAPL"
      [] word = "msft" -> "MSFT"
      [] word = "remove" -> "REMOVE"
      [] word = "Remove" -> "REMOVE"
      [] word = "clear" -> "CLEAR"
      [] word = "exit" -> "EXIT"
      [] OTHER -> word

lower(word) ==
    CASE word = "AAPL" -> "aapl"
      [] word = "MSFT" -> "msft"
      [] word = "Remove" -> "remove"
      [] OTHER -> word

\* validate_tickers (184-194): the upper-cased tickers, in order, of the
\* positions where yf.Ticker(ticker).info did not raise; nothing else is
\* left out.  raises: the positions where it raised.
RECURSIVE validate_from(_, _, _)
validate_from(tickers, raises, i) ==
    IF i > Len(tickers) THEN <<>>
    ELSE (IF i \in raises THEN <<>> ELSE <<upper(tickers[i])>>)
             \o validate_from(tickers, raises, i + 1)

validate_tickers(tickers, raises) == validate_from(tickers, raises, 1)

\* 96-99: append each new ticker the list does not hold yet
RECURSIVE AddTickers(_, _)
AddTickers(list, new_tickers) ==
    IF new_tickers = <<>> THEN list
    ELSE AddTickers(IF Head(new_tickers) \in Range(list) THEN list
                    ELSE Append(list, Head(new_tickers)),
                    Tail(new_tickers))

\* list.remove(x) (86): the list without the first occurrence of x
ListRemove(list, x) ==
    LET i == CHOOSE k \in 1..Len(list) :
                 list[k] = x /\ \A j \in 1..(k - 1) : list[j] # x
    IN  SubSeq(list, 1, i - 1) \o SubSeq(list, i + 1, Len(list))

\* command.lower() == 'exit' (74), == 'clear' (78)
IsExit(command) == Len(command) = 1 /\ lower(command[1]) = "exit"

IsClear(command) == Len(command) = 1 /\ lower(command[1]) = "clear"

\* command.lower().startswith('remove ') on the stripped line (72, 83)
IsRemove(command) == Len(command) >= 2 /\ lower(command[1]) = "remove"

\* command[7:].strip().upper() (84): the words after 'remove', upper-cased
ticker_to_remove(command) ==
    [i \in 1..(Len(command) - 1) |-> upper(command[i + 1])]

\* ticker_to_remove in valid_tickers (85): one word, and in the list
InWatchlist(words, list) == Len(words) = 1 /\ words[1] \in Range(list)

\* main 43-48: the first line typed is validated and becomes the watchlist;
\* with no valid ticker the program returns.  The listener thread starts
\* after that (54-55).
ReadTickers ==
    /\ rt_pc = "input"
    /\ \E raises \in SUBSET (1..Len(Head(stdin))) :
          /\ valid_tickers' = validate_tickers(Head(stdin), raises)
          /\ rt_pc' = IF valid_tickers' = <<>> THEN "exited" ELSE "commands"
    /\ stdin' = Tail(stdin)
    /\ UNCHANGED <<command_queue, overview>>

\* input_listener (23-30), a daemon thread: puts each typed line in the
\* queue, whenever main is running
input_listener ==
    /\ rt_pc \in {"commands", "fetch"}
    /\ stdin # <<>>
    /\ command_queue' = Append(command_queue, Head(stdin))
    /\ stdin' = Tail(stdin)
    /\ UNCHANGED <<valid_tickers, rt_pc, overview>>

\* main 70-100: one turn of the loop over the queued commands
ProcessCommand ==
    /\ rt_pc = "commands"
    /\ command_queue # <<>>
    /\ LET command == Head(command_queue) IN
          IF IsExit(command)
          THEN rt_pc' = "exited" /\ UNCHANGED valid_tickers
          ELSE IF IsClear(command)
          THEN valid_tickers' = <<>> /\ UNCHANGED rt_pc
          ELSE IF IsRemove(command)
          THEN /\ valid_tickers' =
                     IF InWatchlist(ticker_to_remove(command), valid_tickers)
                     THEN ListRemove(valid_tickers, ticker_to_remove(command)[1])
                     ELSE valid_tickers
               /\ UNCHANGED rt_pc
          ELSE /\ \E raises \in SUBSET (1..Len(command)) :
                     valid_tickers' =
                         AddTickers(valid_tickers,
                                    validate_tickers(command, raises))
               /\ UNCHANGED rt_pc
    /\ command_queue' = Tail(command_queue)
    /\ UNCHANGED <<stdin, overview>>

\* main 70, 103-104: the queue is empty, the loop over the commands ends
EndCommands ==
    /\ rt_pc = "commands"
    /\ command_queue = <<>>
    /\ rt_pc' = "fetch"
    /\ UNCHANGED <<stdin, valid_tickers, command_queue, overview>>

\* main 106-179: fetch and print the table of the watchlist (nothing when
\* it is empty), sleep, and go round the loop
ShowTable ==
    /\ rt_pc = "fetch"
    /\ rt_pc' = "commands"
    /\ UNCHANGED <<stdin, valid_tickers, command_queue, overview>>

NextWatchlist ==
    \/ ReadTickers
    \/ input_listener
    \/ ProcessCommand
    \/ EndCommands
    \/ ShowTable

\* quarterly_overview is not running
OverviewIdle ==
    /\ data = {}
    /\ todo = {}
    /\ shares_data = <<>>
    /\ price_source = {}
    /\ stock_history = <<>>
    /\ float_source = {}
    /\ float_data = <<>>
    /\ shares_outstanding_data = <<>>
    /\ quarterly_data = EmptyDict
    /\ q_order = <<>>
    /\ annual_data = EmptyDict
    /\ a_order = <<>>
    /\ df = EmptyDict
    /\ df_index = <<>>
    /\ pct_growth_dict = EmptyDict
    /\ formatted_df = EmptyDict
    /\ pc = "done"

MaxTickers == 2

MaxCommands == 3

\* The sequences of at most n elements of S
SeqUpTo(S, n) == UNION {[1..k -> S] : k \in 0..n}

\* The first line: up to MaxTickers tickers, in either case, with repeats
TickerLines == SeqUpTo({"aapl", "AAPL", "msft"}, MaxTickers)

CommandLines ==
    { <<"exit">>, <<"clear">>, <<"remove", "aapl">>, <<"Remove", "MSFT">>,
      <<"remove", "aapl", "msft">>, <<"aapl">>, <<"msft", "aapl">>,
      <<"AAPL", "aapl">> }

InitWatchlist ==
    /\ OverviewIdle
    /\ stdin \in {<<first>> \o rest : first \in TickerLines,
                                      rest \in SeqUpTo(CommandLines, MaxCommands)}
    /\ valid_tickers = <<>>
    /\ command_queue = <<>>
    /\ rt_pc = "input"

SpecWatchlist == InitWatchlist /\ [][NextWatchlist]_vars

----------------------------------------------------------------------------
(* Vocabulary of the properties *)

AfterNormalize == pc \notin {"extract_shares", "normalize"}

Handed == pc \in {"main", "prices", "float", "fill2", "mcap", "growth", "tier", "done"}

\* v is a fact the loops store in a quarter record, and which one
IsQuarterFact(v) ==
    Visited(v) /\ IsQuarterlyValue(v) /\ ~IsAnnual(MetricOf(v.concept), v.frame)

SameCell(f, g) ==
    /\ IsQuarterFact(f) /\ IsQuarterFact(g)
    /\ RStripI(f.frame) = RStripI(g.frame)
    /\ MetricOf(f.concept) = MetricOf(g.concept)

Reported(q, metric) ==
    \E f \in data : IsQuarterFact(f) /\ RStripI(f.frame) = q
                      /\ MetricOf(f.concept) = metric

\* C1: of two facts of one (quarter, metric) with different filed dates, the
\* later-filed one's value is the value kept, in whatever order the loops reach
\* them and under whatever concepts they are reported (g is later than f and
\* than every other fact of the cell; the kept value is g's from the end of
\* the loops on).
C1_LaterFiledWins ==
    AfterNormalize =>
        \A f \in data, g \in data :
            ( /\ SameCell(f, g)
              /\ FiledOf(f) < FiledOf(g)
              /\ \A h \in data : SameCell(h, g) /\ h # g => FiledOf(h) < FiledOf(g) )
            => quarterly_data[RStripI(g.frame)][MetricOf(g.concept)] = g.val

\* The later-filed fact is reached first (an earlier concept of the list), the
\* earlier-filed one of another concept after it.
C1_Witness ==
    /\ pc = "add_shares"
    /\ \E f \in data, g \in data :
        /\ SameCell(f, g)
        /\ FiledOf(f) < FiledOf(g)
        /\ LoopPos(g) < LoopPos(f)
        /\ f.val # g.val
        /\ quarterly_data[RStripI(g.frame)][MetricOf(g.concept)] = g.val


\* The quarters Q1..Q4 of a year that hold a value of the metric in table qd
Known(qd, year, metric) ==
    {q \in Range(AllQuarters(year)) : Has(qd, q) /\ Has(qd[q], metric)}

HasTotal(year, metric) == Has(annual_data, year) /\ Has(annual_data[year], metric)

\* C3: when a year has an annual total A of Revenue, Gross Profit or Net Profit
\* and exactly three of its quarters hold a value of the metric, the step of the
\* inferencer leaves the three values as conflict resolution left them and
\* gives the fourth quarter a value such that the four sum to A.
C3_InferenceExact ==
    [][pc = "infer" =>
        \A year \in DOMAIN annual_data, metric \in Range(AdditiveMetrics) :
            (HasTotal(year, metric)
                /\ Cardinality(Known(quarterly_data, year, metric)) = 3)
            => /\ Known(quarterly_data', year, metric) = Range(AllQuarters(year))
               /\ \A q \in Known(quarterly_data, year, metric) :
                     quarterly_data'[q][metric] = quarterly_data[q][metric]
               /\ SumOver([q \in Range(AllQuarters(year)) |-> quarterly_data'[q][metric]],
                          Range(AllQuarters(year)))
                    = annual_data[year][metric]]_vars

\* A fourth quarter was inferred in a year whose first quarter was restated.
C3_Witness ==
    /\ pc = "debt"
    /\ \E year \in DOMAIN annual_data, metric \in Range(AdditiveMetrics) :
        /\ HasTotal(year, metric)
        /\ \E q \in Known(quarterly_data, year, metric) :
              /\ ~Reported(q, metric)
              /\ Has(quarterly_data[q], CalculatedKey(metric))
        /\ \E f \in data, g \in data : SameCell(f, g) /\ FiledOf(f) < FiledOf(g)
                                        /\ StartsWith(f.frame, year)
                                        /\ MetricOf(f.concept) = metric

\* C4: when a year has an annual total of a metric and fewer than three, or
\* all four, of its quarters hold a value of it, the step of the inferencer
\* changes the metric in no quarter of the year: what was absent stays absent.
C4_NoInference ==
    [][pc = "infer" =>
        \A year \in DOMAIN annual_data, metric \in Range(AdditiveMetrics) :
            (HasTotal(year, metric)
                /\ Cardinality(Known(quarterly_data, year, metric)) # 3)
            => \A q \in Range(AllQuarters(year)) :
                  /\ (Has(quarterly_data', q) /\ Has(quarterly_data'[q], metric))
                        <=> q \in Known(quarterly_data, year, metric)
                  /\ q \in Known(quarterly_data, year, metric)
                        => quarterly_data'[q][metric] = quarterly_data[q][metric]]_vars

\* The inferencer has run on a year with a total and just two known quarters.
C4_Witness ==
    /\ pc = "debt"
    /\ \E year \in DOMAIN annual_data, metric \in Range(AdditiveMetrics) :
        /\ HasTotal(year, metric)
        /\ Cardinality(Known(quarterly_data, year, metric)) = 2


\* The calculated flag of a cell of a row, False when the row has none
Flagged(row, metric) == Get(row, CalculatedKey(metric), FALSE)

Chrono(k) == 4 * YearOf(k) + QuarterOf(k)

RECURSIVE MostRecent(_, _)
MostRecent(keys, n) ==
    IF n = 0 \/ keys = {} THEN {}
    ELSE LET top == CHOOSE k \in keys : \A j \in keys : Chrono(j) <= Chrono(k)
         IN {top} \cup MostRecent(keys \ {top}, n - 1)

\* C6, as claimed: the returned table is in descending order of quarter end,
\* holds at most 20 rows, and they are the 20 most recent quarters of the
\* working table, also when a quarter was created by inference or from a
\* shares-outstanding entry alone.
C6_SortedMostRecent ==
    Handed =>
        /\ \A i \in DOMAIN df_index, j \in DOMAIN df_index :
              i < j => Chrono(df_index[i]) > Chrono(df_index[j])
        /\ Len(df_index) <= HeadLimit
        /\ Range(df_index) = MostRecent(DOMAIN quarterly_data, HeadLimit)


DirectDebtReported(q) ==
    \E f \in data : /\ IsQuarterFact(f) /\ RStripI(f.frame) = q
                    /\ MetricOf(f.concept) = "Total Debt"
                    /\ ComponentType(f.concept) = "None"

\* C2, as claimed: after the debt aggregator, a quarter with no directly
\* reported total debt and with a short-term or a long-term component has
\* Total Debt = short-term + long-term, an absent component counting as 0.
C2_DebtIsSumOfComponents ==
    pc \in {"fill", "strip"} =>
        \A q \in DOMAIN quarterly_data :
            ( /\ ~DirectDebtReported(q)
              /\ \/ Has(quarterly_data[q], "short_term_debt")
                 \/ Has(quarterly_data[q], "long_term_debt") )
            => /\ Has(quarterly_data[q], "Total Debt")
               /\ quarterly_data[q]["Total Debt"] =
                      Get(quarterly_data[q], "short_term_debt", 0)
                        + Get(quarterly_data[q], "long_term_debt", 0)


\* Calendar end of the quarters of the model: Mar 31, Jun 30, Sep 30, Dec 31
QuarterEnd(k) ==
    CASE k = PrevQ4 -> 20221231
      [] k = Q1 -> 20230331
      [] k = Q2 -> 20230630
      [] k = Q3 -> 20230930
      [] k = Q4 -> 20231231

Priced == pc \in {"float", "fill2", "mcap", "growth", "tier", "done"}

\* C7: the Share Price of a quarter is the Close of the latest date of the
\* price series that is on or before the quarter's calendar end, never that of
\* a later date; with no such date the quarter has no Share Price.
C7_NoLookahead ==
    Priced =>
        \A idx \in DOMAIN df :
            LET before == {i \in DOMAIN stock_history :
                              stock_history[i][1] <= QuarterEnd(idx)}
            IN IF before = {} THEN ~Has(df[idx], "Share Price")
               ELSE /\ Has(df[idx], "Share Price")
                    /\ \E i \in before :
                          /\ \A j \in before : stock_history[j][1] <= stock_history[i][1]
                          /\ df[idx]["Share Price"] = stock_history[i][2]

\* A quarter ends on a day that is not in the series, which has a day before
\* it and a day after it, at different prices.
C7_Witness ==
    /\ pc = "float"
    /\ \E idx \in DOMAIN df :
        /\ \A i \in DOMAIN stock_history : stock_history[i][1] # QuarterEnd(idx)
        /\ \E i \in DOMAIN stock_history, j \in DOMAIN stock_history :
              /\ stock_history[i][1] < QuarterEnd(idx)
              /\ stock_history[j][1] > QuarterEnd(idx)
              /\ stock_history[i][2] # stock_history[j][2]
              /\ df[idx]["Share Price"] = stock_history[i][2]

\* C8: the series filler run again on its own result changes nothing, after
\* the fill of get_quarterly_data and after the fill of add_share_prices.
C8_FillIdempotent ==
    /\ pc = "strip" => FillFrame(quarterly_data) = quarterly_data
    /\ pc = "mcap" => FillFrame(df) = df

\* The fill has filled a quarter before the first reported share count and
\* two quarters after it.
C8_Witness ==
    /\ pc = "strip"
    /\ Len(shares_outstanding_data) = 1
    /\ \E a \in DOMAIN quarterly_data, b \in DOMAIN quarterly_data,
          c \in DOMAIN quarterly_data :
        /\ StrLess(a, shares_outstanding_data[1][1])
        /\ StrLess(shares_outstanding_data[1][1], b)
        /\ StrLess(b, c)
        /\ \A q \in {a, b, c} :
              /\ Has(quarterly_data[q], "Shares Outstanding")
              /\ quarterly_data[q]["Shares Outstanding"] = shares_outstanding_data[1][2]


\* C9: from the scenario's facts the returned table has exactly the four
\* quarters of 2023 as the rows of that year, Q1 Revenue 12 and Q4 Revenue 30.
C9_Scenario ==
    Handed =>
        /\ {k \in Range(df_index) : StartsWith(k, FY)} = {Q1, Q2, Q3, Q4}
        /\ Len(df_index) = Cardinality(Range(df_index))
        /\ df[Q1]["Revenue"] = 12
        /\ df[Q4]["Revenue"] = 30

\* The run has ended on the scenario's facts, the restatement of Q1 filed
\* under another concept than the first figure.
C9_Witness ==
    /\ pc = "done"
    /\ Q4 \in DOMAIN df
    /\ \E f \in data, g \in data :
          SameCell(f, g) /\ f.val = 10 /\ g.val = 12 /\ f.concept # g.concept

\* The growth of a row, when display_metrics has stored one that is not None
HasGrowth(idx) == Has(pct_growth_dict, idx) /\ pct_growth_dict[idx] # <<>>

\* growth of the row >= n, resp. < n, for a row that has a growth n / d
GrowthGE(idx, n) == pct_growth_dict[idx][1] >= n * pct_growth_dict[idx][2]
GrowthLT(idx, n) == pct_growth_dict[idx][1] < n * pct_growth_dict[idx][2]

\* C10: a row is classified high (dark green) exactly when its growth is
\* >= 15, medium when 10 <= growth < 15, low (light green) when
\* 5 <= growth < 10, and none (no colour) when growth < 5 or absent.
C10_TierBoundaries ==
    pc = "done" =>
        \A idx \in DOMAIN df :
            /\ formatted_df[idx] = "dark green"
                  <=> (HasGrowth(idx) /\ GrowthGE(idx, 15))
            /\ formatted_df[idx] = "medium green"
                  <=> (HasGrowth(idx) /\ GrowthGE(idx, 10) /\ GrowthLT(idx, 15))
            /\ formatted_df[idx] = "light green"
                  <=> (HasGrowth(idx) /\ GrowthGE(idx, 5) /\ GrowthLT(idx, 10))
            /\ formatted_df[idx] = "plain"
                  <=> (~HasGrowth(idx) \/ GrowthLT(idx, 5))

\* One row grew by exactly 15 % and is high, another by exactly 5 % and is
\* low, and the oldest row has no growth and no colour.
C10_Witness ==
    /\ pc = "done"
    /\ \E a \in DOMAIN df, b \in DOMAIN df, c \in DOMAIN df :
        /\ HasGrowth(a)
        /\ pct_growth_dict[a][1] = 15 * pct_growth_dict[a][2]
        /\ formatted_df[a] = "dark green"
        /\ HasGrowth(b)
        /\ pct_growth_dict[b][1] = 5 * pct_growth_dict[b][2]
        /\ formatted_df[b] = "light green"
        /\ ~HasGrowth(c)
        /\ formatted_df[c] = "plain"

\* The facts of quarter q that the loops store under Total Debt: those of a
\* direct total-debt concept and those of a component concept
DebtFactsOf(q) ==
    {f \in data : /\ IsQuarterFact(f) /\ RStripI(f.frame) = q
                  /\ MetricOf(f.concept) = "Total Debt"}

\* C11: a quarter of the returned table has no Total Debt exactly when no
\* total-debt fact and no debt-component fact was reported for it; a quarter
\* whose reported debt figures are all 0 has Total Debt present and equal to 0.
C11_DebtAbsentIffUnreported ==
    Handed =>
        \A q \in DOMAIN df :
            /\ ~Has(df[q], "Total Debt") <=> DebtFactsOf(q) = {}
            /\ (DebtFactsOf(q) # {} /\ \A f \in DebtFactsOf(q) : f.val = 0)
                  => df[q]["Total Debt"] = 0

\* The returned table has a quarter whose only debt figures are zeros, with
\* Total Debt 0, and a quarter without any debt fact, with no Total Debt.
C11_Witness ==
    /\ pc = "done"
    /\ \E q \in DOMAIN df, r \in DOMAIN df :
        /\ DebtFactsOf(q) # {}
        /\ \A f \in DebtFactsOf(q) : f.val = 0
        /\ Has(df[q], "Total Debt") /\ df[q]["Total Debt"] = 0
        /\ DebtFactsOf(r) = {}
        /\ ~Has(df[r], "Total Debt")

\* C12: in the derivation step, a quarter with a public float and a Share
\* Price and without Shares Outstanding gets float / price when the price is
\* > 0 and stays without Shares Outstanding when the price is <= 0, whatever
\* happens to the other quarters; a quarter that has Shares Outstanding keeps
\* its value.
C12_SharesFromFloat ==
    [][pc = "float" =>
        \A idx \in DOMAIN df : \A e \in Range(float_data') :
            (RStripI(e.frame) = idx /\ Has(df[idx], "Share Price")) =>
                IF Has(df[idx], "Shares Outstanding")
                THEN /\ Has(df'[idx], "Shares Outstanding")
                     /\ df'[idx]["Shares Outstanding"] = df[idx]["Shares Outstanding"]
                ELSE IF df[idx]["Share Price"] > 0
                THEN /\ Has(df'[idx], "Shares Outstanding")
                     /\ df'[idx]["Shares Outstanding"] * df[idx]["Share Price"] = e.val
                ELSE ~Has(df'[idx], "Shares Outstanding")]_vars

\* The derivation has skipped a quarter priced at zero or below, which has a
\* public float, and has given a row after it in the table its share count.
C12_Witness ==
    /\ pc = "fill2"
    /\ \E a \in DOMAIN df, b \in DOMAIN df :
        /\ \E e \in Range(float_data) : RStripI(e.frame) = a
        /\ \E e \in Range(float_data) : RStripI(e.frame) = b
        /\ Has(df[a], "Share Price") /\ df[a]["Share Price"] > 0
        /\ Has(df[a], "Shares Outstanding")
        /\ Has(df[b], "Share Price") /\ df[b]["Share Price"] <= 0
        /\ ~Has(df[b], "Shares Outstanding")
        /\ \E i \in DOMAIN df_index, j \in DOMAIN df_index :
              i < j /\ df_index[i] = b /\ df_index[j] = a

Capitalised == pc \in {"growth", "tier", "done"}

\* C13: a quarter of the output has a Market Cap exactly when it has both a
\* Share Price and Shares Outstanding, and the Market Cap is then the product
\* of the two values of that row.
C13_MarketCap ==
    Capitalised =>
        \A idx \in DOMAIN df :
            /\ Has(df[idx], "Market Cap")
                  <=> (Has(df[idx], "Share Price") /\ Has(df[idx], "Shares Outstanding"))
            /\ Has(df[idx], "Market Cap")
                  => df[idx]["Market Cap"]
                        = df[idx]["Share Price"] * df[idx]["Shares Outstanding"]

\* Two rows have a Market Cap, from different share counts, and a third row,
\* with Shares Outstanding and without a Share Price, has none.
C13_Witness ==
    /\ pc = "done"
    /\ \E a \in DOMAIN df, b \in DOMAIN df, c \in DOMAIN df :
        /\ Has(df[a], "Market Cap") /\ Has(df[b], "Market Cap")
        /\ df[a]["Shares Outstanding"] # df[b]["Shares Outstanding"]
        /\ df[a]["Market Cap"] = df[a]["Share Price"] * df[a]["Shares Outstanding"]
        /\ df[a]["Market Cap"] # 0
        /\ Has(df[c], "Shares Outstanding") /\ ~Has(df[c], "Share Price")
        /\ ~Has(df[c], "Market Cap")

NoFacts == data = {} /\ shares_data = <<>>

\* C14: when the response holds no fact at all, the run ends and the
\* returned table is empty; when the price series is empty, the run ends and
\* no quarter has a Share Price or a Market Cap.
C14_EmptyInput ==
    /\ [](NoFacts /\ Handed => IsEmptyFrame(df) /\ df_index = <<>>)
    /\ NoFacts ~> pc = "done"
    /\ []((Priced /\ stock_history = <<>>) =>
            \A idx \in DOMAIN df :
                ~Has(df[idx], "Share Price") /\ ~Has(df[idx], "Market Cap"))
    /\ (Priced /\ stock_history = <<>>) ~> pc = "done"

\* The run has ended on a response without facts, with an empty table.
C14_Witness ==
    /\ pc = "done"
    /\ NoFacts
    /\ IsEmptyFrame(df)
    /\ price_source # {<<>>}

\* A quarter key: CY, four digits, Q and a quarter number 1..4
WellFormedQuarterKey(k) ==
    /\ Len(k) = 8 /\ StartsWith(k, CY)
    /\ \A i \in 3..6 : IsDigit(k[i])
    /\ k[7] = "Q" /\ k[8] \in {"1", "2", "3", "4"}

\* C15, as claimed: a fact of an unknown concept or with a period key that is
\* neither a quarter key nor an annual key gives the returned table no row
\* and no value, and the rows of the other facts get their Share Price as
\* they would without it.
C15_UnrecognizedDropped ==
    /\ Handed =>
          \A k \in DOMAIN df :
              /\ WellFormedQuarterKey(k)
              /\ \A f \in data :
                    f.concept \notin KnownConcepts =>
                        \A col \in DOMAIN df[k] : df[k][col] # f.val
    /\ pc = "done" =>
          \A k \in DOMAIN df :
              WellFormedQuarterKey(k) =>
                  (Has(df[k], "Share Price")
                      <=> \E i \in DOMAIN stock_history :
                              stock_history[i][1] <= EndDateStr(k))

\* The facts of the cell (q, metric)
CellFacts(q, metric) ==
    {f \in data : /\ IsQuarterFact(f) /\ RStripI(f.frame) = q
                  /\ MetricOf(f.concept) = metric}

\* The facts of a set that no fact of the set was filed after
LatestFiled(S) == {f \in S : \A h \in S : FiledOf(h) <= FiledOf(f)}

StoredMetrics == {metrics[i][1] : i \in DOMAIN metrics}

\* C16: while the facts are processed, the stored value of a (quarter,
\* metric) is replaced only by a fact whose filed date is strictly greater
\* than the stored one, so that the first processed of the facts filed on the
\* same date stays; after the loops the value kept is that of a latest-filed
\* fact whose concept is listed first among the latest-filed facts.
C16_TieKeepsFirst ==
    /\ [][pc = "normalize" =>
            \A q \in DOMAIN quarterly_data, m \in StoredMetrics :
                (Has(quarterly_data[q], m)
                    /\ quarterly_data'[q][m] # quarterly_data[q][m])
                => quarterly_data'[q][FiledKey(m)] > quarterly_data[q][FiledKey(m)]]_vars
    /\ [](AfterNormalize =>
            \A q \in DOMAIN quarterly_data, m \in StoredMetrics :
                CellFacts(q, m) # {} =>
                    \E g \in LatestFiled(CellFacts(q, m)) :
                        /\ \A h \in LatestFiled(CellFacts(q, m)) :
                               LoopPos(g) <= LoopPos(h)
                        /\ quarterly_data[q][m] = g.val)

\* A quarter has facts of two concepts filed on the same date, later than
\* another fact of it, and the value of the concept listed first is kept.
C16_Witness ==
    /\ pc = "add_shares"
    /\ \E f \in data, g \in data, h \in data :
        /\ SameCell(f, g) /\ SameCell(h, g)
        /\ FiledOf(f) = FiledOf(g) /\ FiledOf(h) < FiledOf(g)
        /\ LoopPos(f) < LoopPos(g) /\ LoopPos(h) > LoopPos(f)
        /\ f.val # g.val
        /\ quarterly_data[RStripI(f.frame)][MetricOf(f.concept)] = f.val

\* The rows of the table that are older than row idx and that no other row
\* of the table lies between: the next-older quarter, if there is one
NextOlder(idx) ==
    {p \in DOMAIN df :
        /\ Chrono(p) < Chrono(idx)
        /\ \A r \in DOMAIN df : ~(Chrono(p) < Chrono(r) /\ Chrono(r) < Chrono(idx))}

RevenueCell(idx) == IF Has(df[idx], "Revenue") THEN <<df[idx]["Revenue"]>> ELSE <<>>

\* C17, as claimed: every row that has a growth value has a next-older
\* quarter in the table, and the growth is the one of the row's Revenue over
\* the Revenue of that quarter.
C17_GrowthAgainstNextOlder ==
    pc \in {"tier", "done"} =>
        \A idx \in DOMAIN df :
            HasGrowth(idx) =>
                \E p \in NextOlder(idx) :
                    pct_growth_dict[idx] \in GrowthOf(RevenueCell(idx), RevenueCell(p))

\* The growth of current c over previous p by the three cases, as a fraction
ExpectedGrowth(c, p) ==
    IF p > 0 THEN <<(c - p) * 100, p>>
    ELSE IF c > 0 THEN <<100, 1>>
    ELSE IF c > p THEN <<(c - p) * 100, -p>>
    ELSE <<0, 1>>

\* C18: for a row and the row after it in the table, both with a Revenue, c
\* and p, the growth of the row is (c - p) / p x 100 if p > 0, 100 if p <= 0
\* and c > 0, and for p <= 0 and c <= 0 it is (c - p) / |p| x 100 when c > p
\* and 0 otherwise.
C18_GrowthByCase ==
    pc \in {"tier", "done"} =>
        \A i \in 1..(Len(df_index) - 1) :
            (Has(df[df_index[i]], "Revenue") /\ Has(df[df_index[i + 1]], "Revenue"))
            => /\ Has(pct_growth_dict, df_index[i])
               /\ pct_growth_dict[df_index[i]] =
                     ExpectedGrowth(df[df_index[i]]["Revenue"],
                                    df[df_index[i + 1]]["Revenue"])

\* Revenue went from -20 to -10 to 5: the narrowing loss is a growth of 50,
\* the turn to a positive value a growth of 100, in the high tier.
C18_Witness ==
    /\ pc = "done"
    /\ df[Q1]["Revenue"] = -20 /\ df[Q2]["Revenue"] = -10 /\ df[Q3]["Revenue"] = 5
    /\ pct_growth_dict[Q2] = <<1000, 20>>
    /\ pct_growth_dict[Q3] = <<100, 1>>
    /\ formatted_df[Q3] = "dark green"

Merged == pc \in {"infer", "debt", "fill", "strip"}

EndsWithI(k) == Len(k) > 0 /\ k[Len(k)] = "I"

\* C19: a fact framed with the instant suffix and a duration fact of the
\* same quarter are stored in one record, under the key without the suffix,
\* and so is a shares-outstanding entry framed with the suffix; no key of the
\* working table and no row of the returned table carries the suffix.
C19_InstantUnified ==
    /\ Merged =>
          /\ \A f \in data, g \in data :
                (IsQuarterFact(f) /\ IsQuarterFact(g) /\ f.frame = Instant(g.frame))
                => /\ Has(quarterly_data, g.frame)
                   /\ Has(quarterly_data[g.frame], MetricOf(f.concept))
                   /\ Has(quarterly_data[g.frame], MetricOf(g.concept))
          /\ \A i \in DOMAIN shares_data, g \in data :
                (IsQuarterFact(g) /\ shares_data[i].frame = Instant(g.frame))
                => /\ Has(quarterly_data[g.frame], "Shares Outstanding")
                   /\ Has(quarterly_data[g.frame], MetricOf(g.concept))
    /\ \A k \in DOMAIN quarterly_data \cup DOMAIN df : ~EndsWithI(k)
    /\ \A i \in DOMAIN shares_outstanding_data : ~EndsWithI(shares_outstanding_data[i][1])

\* The returned table has a row of one quarter with the revenue of a
\* duration fact, the cash and the debt of instant facts and the share count of
\* an instant entry.
C19_Witness ==
    /\ pc = "done"
    /\ Has(df, Q1)
    /\ {"Revenue", "Cash", "Total Debt", "Shares Outstanding"} \subseteq DOMAIN df[Q1]
    /\ \A f \in data : MetricOf(f.concept) \in {"Cash", "Total Debt"} => EndsWithI(f.frame)
    /\ \E f \in data : MetricOf(f.concept) = "Revenue" /\ ~EndsWithI(f.frame)

\* The annual facts of (year, metric): those the loops route to annual_data
AnnualFacts(year, metric) ==
    {f \in data : /\ Visited(f) /\ IsQuarterlyValue(f)
                  /\ MetricOf(f.concept) = metric
                  /\ IsAnnual(metric, f.frame) /\ f.frame = year}

\* The year key of a quarter key: its first six characters
YearKey(k) == SubSeq(k, 1, 6)

\* C20: no row of the returned table is keyed by a year; a value of Revenue,
\* Gross Profit or Net Profit in a row is the value of a quarter fact of that
\* row or, for a quarter that has none, the latest-filed annual total of its
\* year minus the values of the other three quarters; a value of Cash is the
\* value of a quarter fact of that row.
C20_AnnualOnlyInferred ==
    Handed =>
        \A k \in DOMAIN df :
            /\ Len(k) # 6
            /\ Has(df[k], "Cash") => \E f \in CellFacts(k, "Cash") : f.val = df[k]["Cash"]
            /\ \A m \in Range(AdditiveMetrics) :
                  Has(df[k], m) =>
                      IF CellFacts(k, m) # {}
                      THEN \E f \in CellFacts(k, m) : f.val = df[k][m]
                      ELSE LET others == Range(AllQuarters(YearKey(k))) \ {k} IN
                           /\ \A o \in others : Has(df, o) /\ Has(df[o], m)
                           /\ \E a \in LatestFiled(AnnualFacts(YearKey(k), m)) :
                                 df[k][m] = a.val - SumOver([o \in others |-> df[o][m]],
                                                            others)

\* The annual revenue was filed twice and a cash fact is framed by the
\* year; the fourth quarter of the returned table holds the later annual
\* total minus the three reported quarters.
C20_Witness ==
    /\ pc = "done"
    /\ Cardinality(AnnualFacts(FY, "Revenue")) = 2
    /\ \E f \in data : f.concept = "Cash" /\ f.frame = FY
    /\ Has(df, Q4) /\ CellFacts(Q4, "Revenue") = {}
    /\ df[Q4]["Revenue"] = 80 - (10 + 15 + 18)

\* The cells (quarter, key) that the table qd2 holds and the table qd1 does not
NewCells(qd1, qd2) ==
    {c \in UNION {{<<q, col>> : col \in DOMAIN qd2[q]} : q \in DOMAIN qd2} :
        ~(Has(qd1, c[1]) /\ Has(qd1[c[1]], c[2]))}

\* C21: the step of the inferencer keeps every quarter and every cell of
\* the working table with its value; the cells it adds are Revenue, Gross
\* Profit or Net Profit cells (with their calculated flag) of quarters of a
\* year that has an annual record, at most one per year and metric.
C21_InferenceFrame ==
    [][pc = "infer" =>
        /\ \A q \in DOMAIN quarterly_data :
              /\ Has(quarterly_data', q)
              /\ \A col \in DOMAIN quarterly_data[q] :
                    /\ Has(quarterly_data'[q], col)
                    /\ quarterly_data'[q][col] = quarterly_data[q][col]
        /\ \A c \in NewCells(quarterly_data, quarterly_data') :
              /\ c[2] \in Range(AdditiveMetrics) \cup CalculatedKeys
              /\ \E year \in DOMAIN annual_data : c[1] \in Range(AllQuarters(year))
        /\ \A year \in DOMAIN annual_data, m \in Range(AdditiveMetrics) :
              Cardinality({c \in NewCells(quarterly_data, quarterly_data') :
                              c[2] = m /\ StartsWith(c[1], year)}) <= 1]_vars

\* The third quarter was inferred next to a reported fourth quarter and a
\* quarter of the year before.
C21_Witness ==
    /\ pc = "debt"
    /\ Has(quarterly_data, Q3) /\ ~Reported(Q3, "Revenue")
    /\ Has(quarterly_data[Q3], "Revenue")
    /\ Reported(Q4, "Revenue") /\ quarterly_data[Q4]["Revenue"] = 20
    /\ Has(quarterly_data, PrevQ4)

\* The quarters of table qd that hold a share count
WithShares(qd) == {q \in DOMAIN qd : Has(qd[q], "Shares Outstanding")}

\* C22: in the fill step of get_quarterly_data, with the quarters in
\* ascending key order, a quarter that has a share count keeps it, a quarter
\* without one gets the count of the nearest earlier quarter that has one, or
\* of the first quarter that has one when none is earlier; when some quarter
\* has a count none is left without; nothing else changes.
C22_FillSemantics ==
    [][pc = "fill" =>
        LET known == WithShares(quarterly_data) IN
        /\ known = {} => quarterly_data' = quarterly_data
        /\ known # {} =>
              \A q \in DOMAIN quarterly_data :
                  /\ Drop(quarterly_data'[q], {"Shares Outstanding"})
                        = Drop(quarterly_data[q], {"Shares Outstanding"})
                  /\ Has(quarterly_data'[q], "Shares Outstanding")
                  /\ \E e \in known :
                        /\ quarterly_data'[q]["Shares Outstanding"]
                              = quarterly_data[e]["Shares Outstanding"]
                        /\ IF q \in known THEN e = q
                           ELSE IF \E b \in known : StrLess(b, q)
                           THEN /\ StrLess(e, q)
                                /\ \A b \in known : StrLess(b, q) => ~StrLess(e, b)
                           ELSE \A b \in known : ~StrLess(b, e)]_vars

\* Two quarters reported different share counts; the quarter before the
\* first got the first count and the quarter between them got it too.
C22_Witness ==
    /\ pc = "strip"
    /\ Len(shares_outstanding_data) = 2
    /\ DOMAIN quarterly_data = {PrevQ4, Q1, Q2, Q3}
    /\ quarterly_data[PrevQ4]["Shares Outstanding"] = 100
    /\ quarterly_data[Q1]["Shares Outstanding"] = 100
    /\ quarterly_data[Q2]["Shares Outstanding"] = 100
    /\ quarterly_data[Q3]["Shares Outstanding"] = 300

\* The rows of the table that no row of the table is older than
Oldest == {idx \in DOMAIN df : \A r \in DOMAIN df : Chrono(idx) <= Chrono(r)}

\* C23, as claimed: the oldest quarter of the returned table has no growth
\* value and no colour, whatever its Revenue.
C23_OldestHasNoGrowth ==
    /\ pc \in {"tier", "done"} => \A idx \in Oldest : ~HasGrowth(idx)
    /\ pc = "done" => \A idx \in Oldest : formatted_df[idx] = "plain"

\* C24: the steps of display_metrics, which compute the growth values and
\* the colours, leave the table as it was handed over: every value of every
\* row, the Revenue in particular, and the order of the rows.
C24_TieringReadsOnly ==
    [][(pc = "growth" \/ pc = "tier") => (df' = df /\ df_index' = df_index)]_vars

\* A row is coloured and the table still holds its revenue as reported.
C24_Witness ==
    /\ pc = "done"
    /\ \E idx \in DOMAIN df :
        /\ formatted_df[idx] # "plain"
        /\ \E f \in CellFacts(idx, "Revenue") : df[idx]["Revenue"] = f.val

\* The order of the steps of a run: the pairs (position, next position)
StageOrder ==
    { <<"extract_shares", "normalize">>, <<"normalize", "normalize">>,
      <<"normalize", "add_shares">>, <<"add_shares", "infer">>,
      <<"infer", "debt">>, <<"debt", "fill">>, <<"fill", "strip">>,
      <<"strip", "output">>, <<"output", "main">>, <<"main", "prices">>,
      <<"main", "done">>, <<"prices", "float">>, <<"prices", "growth">>,
      <<"float", "fill2">>, <<"fill2", "mcap">>, <<"mcap", "growth">>,
      <<"growth", "tier">>, <<"tier", "done">> }

InStageOrder == <<pc, pc'>> \in StageOrder

\* The step is the second fill and leaves the share counts as they are
SecondFillIdle ==
    pc = "fill2" =>
        \A idx \in DOMAIN df :
            Has(df'[idx], "Shares Outstanding") <=> Has(df[idx], "Shares Outstanding")

\* The step is the second fill and fills: counts are kept, and when a row
\* has one every row has one afterwards
SecondFillFills ==
    pc = "fill2" =>
        /\ \A idx \in WithShares(df) :
              df'[idx]["Shares Outstanding"] = df[idx]["Shares Outstanding"]
        /\ WithShares(df) # {} => WithShares(df') = DOMAIN df

\* The facts have all been processed when the loops are left
FactsConsumed == AfterNormalize => \A v \in todo : ~Visited(v)

\* C25, as claimed: the steps run in the order normalizer and frame merger,
\* inferencer, debt aggregator, series filler, market aligner, growth
\* classifier, each on the whole table, and the series filler does not run
\* again once the market aligner has derived share counts.
C25_FillerRunsOnce ==
    [][InStageOrder /\ FactsConsumed /\ SecondFillIdle]_vars

\* C25, amended: the steps run in that order, each on the whole table, and
\* inside add_share_prices the series filler runs a second time, after the
\* derivation of share counts from public float and before the market cap: it
\* spreads the derived counts over the quarters that have none.
C25_FillerRunsTwice ==
    /\ [][InStageOrder]_vars
    /\ []FactsConsumed
    /\ [][SecondFillFills]_vars

\* No share count was reported; one quarter got a count derived from its
\* public float and the second fill gave it to a quarter without a float.
C25_Witness ==
    /\ pc = "mcap"
    /\ shares_data = <<>>
    /\ \E a \in DOMAIN df, b \in DOMAIN df :
        /\ \E e \in Range(float_data) : RStripI(e.frame) = a
        /\ \A e \in Range(float_data) : RStripI(e.frame) # b
        /\ Has(df[a], "Shares Outstanding") /\ Has(df[b], "Shares Outstanding")
        /\ df[b]["Shares Outstanding"] = df[a]["Shares Outstanding"]

HasComponent(d) == Has(d, "short_term_debt") \/ Has(d, "long_term_debt")

\* The Total Debt of record d of quarter q is the value of one debt fact of
\* the quarter: a latest-filed one, of the concept listed first among these
TotalIsOneFact(q, d) ==
    \E g \in LatestFiled(DebtFactsOf(q)) :
        /\ \A h \in LatestFiled(DebtFactsOf(q)) : LoopPos(g) <= LoopPos(h)
        /\ d["Total Debt"] = g.val

Derivable(idx, fl) ==
    /\ \E e \in Range(fl) : RStripI(e.frame) = idx
    /\ Has(df[idx], "Share Price") /\ df[idx]["Share Price"] > 0
    /\ ~Has(quarterly_data[idx], "Shares Outstanding")

Filled2 == pc \in {"mcap", "growth", "tier", "done"} /\ float_data # <<>>

ReportedCounts == {shares_outstanding_data[i][2] : i \in DOMAIN shares_outstanding_data}

\* C28: when a share count was reported for some quarter, every row of the
\* returned table holds a reported count before add_share_prices runs, the
\* derivation step changes nothing, and every share count of the output is a
\* reported one.
C28_NoDerivationWhenReported ==
    /\ []((Handed /\ ReportedCounts # {}) =>
            \A idx \in DOMAIN df :
                /\ Has(df[idx], "Shares Outstanding")
                /\ df[idx]["Shares Outstanding"] \in ReportedCounts)
    /\ [][(pc = "float" /\ ReportedCounts # {}) => df' = df]_vars

\* A share count was reported for a later quarter only; an earlier quarter
\* with a public float and a positive price holds the reported count after
\* the derivation step.
C28_Witness ==
    /\ pc = "fill2"
    /\ ReportedCounts = {300}
    /\ \E e \in Range(float_data) : RStripI(e.frame) = Q1
    /\ Has(df, Q1)
    /\ Has(df[Q1], "Share Price") /\ df[Q1]["Share Price"] > 0
    /\ df[Q1]["Shares Outstanding"] = 300

\* C29: for every row and the row after it, the growth computation stores a
\* number, a fraction whose denominator is not 0, when both rows have a
\* Revenue, and stores nothing when one of them has none; the last row holds
\* None.
C29_GrowthIsTotal ==
    (pc \in {"tier", "done"} /\ "Revenue" \in Columns(df)) =>
        /\ \A i \in 1..(Len(df_index) - 1) :
              IF Has(df[df_index[i]], "Revenue") /\ Has(df[df_index[i + 1]], "Revenue")
              THEN /\ HasGrowth(df_index[i])
                   /\ pct_growth_dict[df_index[i]][2] > 0
              ELSE ~Has(pct_growth_dict, df_index[i])
        /\ pct_growth_dict[df_index[Len(df_index)]] = <<>>

\* Revenue is absent, then 0, then 0: the row after the absent one has no
\* growth value and the row after a revenue of 0 has the growth 0.
C29_Witness ==
    /\ pc = "done"
    /\ ~Has(df[Q1], "Revenue")
    /\ df[Q2]["Revenue"] = 0 /\ df[Q3]["Revenue"] = 0
    /\ ~Has(pct_growth_dict, Q2)
    /\ pct_growth_dict[Q3] = <<0, 1>>

----------------------------------------------------------------------------
(* trading_rt: the watchlist *)

NoDuplicates ==
    \A i, j \in 1..Len(valid_tickers) :
        valid_tickers[i] = valid_tickers[j] => i = j

\* This step is main processing the queued command 'remove T'
Removes(T) ==
    /\ rt_pc = "commands"
    /\ command_queue # <<>>
    /\ IsRemove(Head(command_queue))
    /\ ticker_to_remove(Head(command_queue)) = <<T>>
    /\ command_queue' = Tail(command_queue)

RemoveTakesEffect ==
    \A T \in {"AAPL", "MSFT"} : Removes(T) => T \notin Range(valid_tickers')

\* After 'remove T', T is gone
RemoveAlwaysTakesEffect == [][RemoveTakesEffect]_vars

\* The commands keep a watchlist free of repeats: only the
\* first line typed can bring one in.
CommandsKeepDistinct ==
    [][(rt_pc # "input" /\ NoDuplicates) => NoDuplicates']_vars

\* C30: whatever the first line typed and whatever commands are queued
\* after it (tickers to add, 'remove T', 'clear'), the watchlist never
\* holds the same ticker twice, and once a 'remove T' command has been
\* processed T is not in the watchlist.
C30_WatchlistHasNoRepeats == []NoDuplicates /\ [][RemoveTakesEffect]_vars

====
